---- MODULE Spec2Model ----
(***************************************************************************)
(* A model of the ARGS_SPEC validator of natcap.invest                      *)
(* (tests/test_args_specs.py) and of the data it walks                      *)
(* (src/natcap/invest/spec_utils.py).                                       *)
(*                                                                         *)
(* Python values are records [k, s, n, items]:                             *)
(*   k      the Python type ("str", "int", "bool", "none", "unit", "set",  *)
(*          "dict")                                                        *)
(*   s      the text of a str, the expression a unit was written as        *)
(*   n      the value of an int, 1/0 for True/False, the registry a unit   *)
(*          was issued by (0 is spec_utils.u)                              *)
(*   items  the members of a set in its iteration order, the [key, val]    *)
(*          entries of a dict in insertion order, the [name, exponent]     *)
(*          entries of a unit's _units, by name                            *)
(* The iteration order of a Python set of strings depends on the process's *)
(* hash seed, so a set value carries one order and the inputs enumerate    *)
(* the orders.                                                             *)
(*                                                                         *)
(* The test is run by unittest.main() (test_args_specs.py:315-316), whose  *)
(* result object supports subtests: leaving a `with self.subTest(...)`     *)
(* block by an exception records the exception for that subtest and        *)
(* execution continues after the block.                                    *)
(***************************************************************************)
EXTENDS Integers, Sequences, FiniteSets, TLC

\* ------------------------------------------------------------ bounds

\* Longest permissions string drawn as an input.
MaxPermLen == 3

\* Deepest chain of directories nested through `contents` drawn as an input.
MaxDirDepth == 2

\* ------------------------------------------------------------ Python values

PyVal(k, s, n, items) == [k |-> k, s |-> s, n |-> n, items |-> items]

PyStr(s) == PyVal("str", s, 0, <<>>)

PyInt(n) == PyVal("int", "", n, <<>>)

PyBool(b) == PyVal("bool", "", IF b THEN 1 ELSE 0, <<>>)

PyNone == PyVal("none", "", 0, <<>>)

PySet(members) == PyVal("set", "", 0, members)

PyDict(entries) == PyVal("dict", "", 0, entries)

Entry(key, val) == [key |-> key, val |-> val]

\* isinstance(v, cls) for the classes the validator asks about. bool is a
\* subclass of int; every registry's units are instances of pint.Unit.
IsInstance(v, cls) ==
    CASE cls = "int" -> v.k \in {"int", "bool"}
      [] cls = "pint.Unit" -> v.k = "unit"
      [] OTHER -> v.k = cls

\* bool(v): the truth value an assertTrue tests.
Truthy(v) ==
    CASE v.k \in {"int", "bool"} -> v.n # 0
      [] v.k = "str" -> Len(v.s) > 0
      [] v.k = "none" -> FALSE
      [] v.k \in {"set", "dict"} -> Len(v.items) > 0
      [] OTHER -> TRUE

\* str(v) as an f-string renders a dict key.
PyFormat(v) ==
    CASE v.k = "str" -> v.s
      [] v.k = "int" -> ToString(v.n)
      [] v.k = "bool" -> IF v.n = 1 THEN "True" ELSE "False"
      [] v.k = "none" -> "None"
      [] OTHER -> "<" \o v.k \o ">"

\* key in d, for a str key of a dict d.
Has(d, key) == \E i \in 1..Len(d.items) : d.items[i].key = PyStr(key)

\* d[key], for a key that is in d.
Get(d, key) ==
    LET i == CHOOSE j \in 1..Len(d.items) : d.items[j].key = PyStr(key)
    IN  d.items[i].val

\* set(d.keys()), for a dict whose keys are strings.
Keys(d) == {d.items[i].key.s : i \in 1..Len(d.items)}

\* ------------------------------------------------------------ the registry

\* The characters of unit names and symbols, by code point.
CodePoints == "ABCDEFGHIJKLMNOPQRSTUVWXYZ_abcdefghijklmnopqrstuvwxyz"

ord(c) == CHOOSE i \in 1..Len(CodePoints) : SubSeq(CodePoints, i, i) = c

\* a < b for Python strings: the first differing character decides, a
\* proper prefix comes first.
RECURSIVE StrLess(_, _, _)
StrLess(a, b, i) ==
    IF i > Len(a) THEN i <= Len(b)
    ELSE IF i > Len(b) THEN FALSE
    ELSE IF SubSeq(a, i, i) = SubSeq(b, i, i) THEN StrLess(a, b, i + 1)
    ELSE ord(SubSeq(a, i, i)) < ord(SubSeq(b, i, i))

\* sorted(S) for a set of strings.
RECURSIVE sorted(_)
sorted(S) ==
    IF S = {} THEN <<>>
    ELSE LET least == CHOOSE x \in S : \A y \in S \ {x} : StrLess(x, y, 1)
         IN  <<least>> \o sorted(S \ {least})

\* The units of the registry u that the model draws on: the name each is
\* kept under, its symbol ("" when it has none) and the other names it
\* answers to. hour, year and the units without a dimension are defined by
\* lines 15-37, the others by the registry's defaults.
UnitDefinitions ==
    {[name |-> "meter", symbol |-> "m", aliases |-> {"metre"}],
     [name |-> "millimeter", symbol |-> "mm", aliases |-> {"millimetre"}],
     [name |-> "second", symbol |-> "s", aliases |-> {"sec"}],
     [name |-> "hour", symbol |-> "h", aliases |-> {"hr"}],
     [name |-> "year", symbol |-> "",
      aliases |-> {"yr", "a", "julian_year"}],
     [name |-> "hectare", symbol |-> "ha", aliases |-> {}],
     [name |-> "metric_ton", symbol |-> "t", aliases |-> {"tonne"}],
     [name |-> "kilogram", symbol |-> "kg", aliases |-> {}],
     [name |-> "megajoule", symbol |-> "MJ", aliases |-> {}],
     [name |-> "currency", symbol |-> "", aliases |-> {}],
     [name |-> "pixel", symbol |-> "", aliases |-> {}],
     [name |-> "linear_unit", symbol |-> "", aliases |-> {}],
     [name |-> "international_unit", symbol |-> "iu", aliases |-> {"IU"}],
     [name |-> "none", symbol |-> "", aliases |-> {}]}

\* The base units lines 15-37 define: the dimension each is the reference
\* of, [] being the registry's dimensionless dimension (no tag at all), and
\* its scale in that dimension.
CustomBaseUnits ==
    {[name |-> "currency", dimension |-> {"[value]"}, scale |-> 1],
     [name |-> "pixel", dimension |-> {}, scale |-> 1],
     [name |-> "linear_unit", dimension |-> {}, scale |-> 1],
     [name |-> "international_unit", dimension |-> {"[biologic_amount]"},
      scale |-> 1],
     [name |-> "none", dimension |-> {}, scale |-> 1]}

\* The dimension and the scale of a unit that is one custom base unit.
BaseOf(unit) ==
    CHOOSE b \in CustomBaseUnits : b.name = unit.items[1].key.s

\* The definition that answers to the name or symbol written.
get_definition(written) ==
    CHOOSE d \in UnitDefinitions :
      written \in {d.name, d.symbol} \cup d.aliases

\* u.get_symbol(name): the symbol, or the name of a unit that has none.
get_symbol(name) ==
    IF get_definition(name).symbol = "" THEN name
    ELSE get_definition(name).symbol

\* A Unit of registry reg whose _units maps each name of exponents to its
\* exponent, names of exponent 0 dropped; written is the expression it was
\* built from.
MakeUnit(written, exponents, reg) ==
    PyVal("unit", written, reg,
          [i \in 1..Cardinality({n \in DOMAIN exponents : exponents[n] # 0})
             |-> Entry(PyStr(sorted({n \in DOMAIN exponents :
                                      exponents[n] # 0})[i]),
                       PyInt(exponents[sorted({n \in DOMAIN exponents :
                                                 exponents[n] # 0})[i]]))])

\* getattr(registry, written): the Unit written by a name, a symbol or an
\* alias; reg 0 is the shared registry u.
PyUnit(written, reg) ==
    PyVal("unit", written, reg,
          <<Entry(PyStr(get_definition(written).name), PyInt(1))>>)

\* The exponent of name in unit._units, 0 when it is not there.
Exponent(unit, name) ==
    IF \E i \in 1..Len(unit.items) : unit.items[i].key.s = name
    THEN (CHOOSE e \in {unit.items[i] : i \in 1..Len(unit.items)} :
            e.key.s = name).val.n
    ELSE 0

UnitNames(unit) == {unit.items[i].key.s : i \in 1..Len(unit.items)}

\* a * b, a / b and a ** k for Units of one registry.
UnitMul(a, b) ==
    MakeUnit(a.s \o "*" \o b.s,
             [n \in UnitNames(a) \cup UnitNames(b) |->
                Exponent(a, n) + Exponent(b, n)],
             a.n)

UnitDiv(a, b) ==
    MakeUnit(a.s \o "/(" \o b.s \o ")",
             [n \in UnitNames(a) \cup UnitNames(b) |->
                Exponent(a, n) - Exponent(b, n)],
             a.n)

UnitPow(a, k) ==
    MakeUnit(a.s \o "**" \o ToString(k),
             [n \in UnitNames(a) |-> Exponent(a, n) * k], a.n)

\* ------------------------------------------------------------ spec_utils

\* What a call returns or raises: the text returned ("" when it raises), the
\* exception raised ("" when it returns), and the argument as the call
\* leaves it.
Returned(text, obj) == [text |-> text, exc |-> "", obj |-> obj]

Raised(exc, obj) == [text |-> "", exc |-> exc, obj |-> obj]

\* The superscript digits 1 to 3. The other superscript digits lie outside
\* the character set of a module, so the exponents of the units formatted
\* here stay within 1..3 (an exponent beyond them has no rendering at all).
Superscripts == <<"¹", "²", "³">>

\* pint.formatting._pretty_fmt_exponent(num), for num in 1..3: the digit as
\* a superscript.
pretty_fmt_exponent(num) == Superscripts[num]

\* sep.join(terms)
RECURSIVE join(_, _)
join(sep, terms) ==
    IF terms = <<>> THEN ""
    ELSE IF Len(terms) = 1 THEN terms[1]
    ELSE terms[1] \o sep \o join(sep, Tail(terms))

\* The exponent the pair of symbol has in items.
ValueOf(items, symbol) ==
    (CHOOSE item \in {items[i] : i \in 1..Len(items)} : item[1] = symbol)[2]

\* power_fmt.format(key, exp_call(abs(value))), the bare key for the
\* exponents 1 and -1.
Term(key, value) ==
    IF value \in {1, -1} THEN key
    ELSE key \o pretty_fmt_exponent(IF value < 0 THEN -value ELSE value)

\* pos_terms (positive) or neg_terms of formatter: the terms of the items
\* with exponents of that sign, in sorted(items) order.
Terms(items, positive) ==
    [i \in 1..Len(SelectSeq(sorted({items[j][1] : j \in 1..Len(items)}),
                            LAMBDA key :
                              (ValueOf(items, key) > 0) = positive))
       |-> Term(SelectSeq(sorted({items[j][1] : j \in 1..Len(items)}),
                          LAMBDA key :
                            (ValueOf(items, key) > 0) = positive)[i],
                ValueOf(items,
                        SelectSeq(sorted({items[j][1] : j \in 1..Len(items)}),
                                  LAMBDA key :
                                    (ValueOf(items, key) > 0) = positive)[i]))]

\* The ratio of formatter: pos_ret, and the denominator after division_fmt.
Ratio(pos_ret, neg_ret) ==
    IF neg_ret = "" THEN pos_ret ELSE pos_ret \o "/" \o neg_ret

\* formatter had it been called without single_denominator: every
\* denominator after a division sign of its own.
formatter_eachDenominator(items) ==
    IF items = <<>> THEN ""
    ELSE Ratio(IF Terms(items, TRUE) = <<>> THEN "1"
               ELSE join(" · ", Terms(items, TRUE)),
               join("/", Terms(items, FALSE)))

\* pint.formatting.formatter(items, as_ratio=True, single_denominator=True,
\* product_fmt=" · ", division_fmt='/', power_fmt="{}{}",
\* parentheses_fmt="({})", exp_call=_pretty_fmt_exponent)
formatter(items) ==
    IF items = <<>> THEN ""
    ELSE Ratio(IF Terms(items, TRUE) = <<>> THEN "1"
               ELSE join(" · ", Terms(items, TRUE)),
               IF Len(Terms(items, FALSE)) > 1
               THEN "(" \o join(" · ", Terms(items, FALSE)) \o ")"
               ELSE join(" · ", Terms(items, FALSE)))

\* The pre-set formats of format_unit: the unit of soil erodibility.
custom_formats ==
    <<[unit |-> UnitDiv(UnitMul(PyUnit("t", 0), PyUnit("hr", 0)),
                        UnitMul(PyUnit("MJ", 0), PyUnit("mm", 0))),
       text |-> "t · h · ha / (ha · MJ · mm)"]>>

\* unit_items of format_unit: (u.get_symbol(key), val) for the items of
\* unit._units.
unit_items(unit) ==
    [i \in 1..Len(unit.items) |->
       <<get_symbol(unit.items[i].key.s), unit.items[i].val.n>>]

\* format_unit had it no pre-set formats: every Unit gets the automatic
\* format.
format_unit_automatic(unit) ==
    IF ~IsInstance(unit, "pint.Unit") THEN Raised("TypeError", unit)
    ELSE Returned(formatter(unit_items(unit)), unit)

\* format_unit(unit). Two Units are the same key of custom_formats when
\* their _units are equal; comparing Units of two registries raises pint's
\* ValueError.
format_unit(unit) ==
    IF ~IsInstance(unit, "pint.Unit") THEN Raised("TypeError", unit)
    ELSE IF \E c \in 1..Len(custom_formats) :
              custom_formats[c].unit.items = unit.items
    THEN IF unit.n # 0 THEN Raised("ValueError", unit)
         ELSE Returned((CHOOSE c \in {custom_formats[i] :
                                         i \in 1..Len(custom_formats)} :
                          c.unit.items = unit.items).text, unit)
    ELSE Returned(formatter(unit_items(unit)), unit)

\* json.encoder.py_encode_basestring_ascii on one character: the quote and
\* the backslash escaped, a character outside ASCII as \uXXXX.
EscapeChar(c) ==
    CASE c = "\"" -> "\\\""
      [] c = "\\" -> "\\\\"
      [] c = "·" -> "\\u00b7"
      [] c = "¹" -> "\\u00b9"
      [] c = "²" -> "\\u00b2"
      [] c = "³" -> "\\u00b3"
      [] OTHER -> c

\* The characters lo..hi of a Python str, each one escaped; the range is
\* halved so that a long text needs few nested evaluations.
RECURSIVE EscapeRange(_, _, _)
EscapeRange(text, lo, hi) ==
    IF lo > hi THEN ""
    ELSE IF lo = hi THEN EscapeChar(SubSeq(text, lo, lo))
    ELSE EscapeRange(text, lo, (lo + hi) \div 2)
           \o EscapeRange(text, (lo + hi) \div 2 + 1, hi)

\* The JSON text of a Python str.
encode_basestring_ascii(text) ==
    "\"" \o EscapeRange(text, 1, Len(text)) \o "\""

JsonString(text) == encode_basestring_ascii(text)

\* repr(v) of a member of a set.
repr(v) ==
    CASE v.k = "str" -> "'" \o v.s \o "'"
      [] v.k = "int" -> ToString(v.n)
      [] v.k = "bool" -> IF v.n = 1 THEN "True" ELSE "False"
      [] v.k = "none" -> "None"
      [] OTHER -> "<" \o v.k \o ">"

\* str(obj) of a set, in its iteration order.
str(obj) ==
    IF obj.items = <<>> THEN "set()"
    ELSE "{" \o join(", ", [i \in 1..Len(obj.items) |-> repr(obj.items[i])])
             \o "}"

\* fallback_serializer had it listed the members of a set without the
\* braces of str(obj).
fallback_serializer_bareListing(obj) ==
    IF IsInstance(obj, "pint.Unit") THEN format_unit(obj)
    ELSE IF IsInstance(obj, "set")
    THEN Returned(join(", ", [i \in 1..Len(obj.items) |->
                                repr(obj.items[i])]), obj)
    ELSE Raised("TypeError", obj)

\* fallback_serializer(obj) of serialize_args_spec (lines 238-248).
fallback_serializer(obj) ==
    IF IsInstance(obj, "pint.Unit") THEN format_unit(obj)
    ELSE IF IsInstance(obj, "set") THEN Returned(str(obj), obj)
    ELSE Raised("TypeError", obj)

\* A dict key json.dumps can encode: str, int, bool or None.
KeyOk(key) == key.k \in {"str", "int", "bool", "none"}

\* The JSON text of a dict key.
KeyText(key) ==
    CASE key.k = "str" -> JsonString(key.s)
      [] key.k = "int" -> JsonString(ToString(key.n))
      [] key.k = "bool" -> IF key.n = 1 THEN "\"true\"" ELSE "\"false\""
      [] OTHER -> "\"null\""

RECURSIVE encode(_)
RECURSIVE encode_items(_, _, _)

\* The text of a dict so far, acc, with the i-th item, whose value encoded
\* as r.
WithItem(acc, item, r, i) ==
    IF r.exc # "" THEN Raised(r.exc, acc.obj)
    ELSE Returned(acc.text \o (IF i > 1 THEN ", " ELSE "")
                    \o KeyText(item.key) \o ": " \o r.text,
                  PyDict(Append(acc.obj.items, Entry(item.key, r.obj))))

\* The items of a dict from the i-th on, one after the other: the key, then
\* the value.
encode_items(items, i, acc) ==
    IF acc.exc # "" \/ i > Len(items) THEN acc
    ELSE IF ~KeyOk(items[i].key) THEN Raised("TypeError", acc.obj)
    ELSE encode_items(items, i + 1,
                      WithItem(acc, items[i], encode(items[i].val), i))

\* The closing of a dict, or the exception that ended its encoding, which
\* leaves obj as it was.
Closed(r, obj) ==
    IF r.exc # "" THEN Raised(r.exc, obj)
    ELSE Returned(r.text \o "}", r.obj)

\* What the encoder makes of the value its `default` hook gave for obj: the
\* hook's string as a JSON string, or the hook's exception.
Defaulted(r, obj) ==
    IF r.exc # "" THEN Raised(r.exc, obj)
    ELSE Returned(JsonString(r.text), obj)

\* json.dumps(obj, default=fallback_serializer) on one value.
encode(obj) ==
    CASE obj.k = "str" -> Returned(JsonString(obj.s), obj)
      [] obj.k = "int" -> Returned(ToString(obj.n), obj)
      [] obj.k = "bool" ->
           Returned(IF obj.n = 1 THEN "true" ELSE "false", obj)
      [] obj.k = "none" -> Returned("null", obj)
      [] obj.k = "dict" ->
           Closed(encode_items(obj.items, 1, Returned("{", PyDict(<<>>))),
                  obj)
      [] OTHER -> Defaulted(fallback_serializer(obj), obj)

\* serialize_args_spec(spec)
serialize_args_spec(spec) == encode(spec)

\* ------------------------------------------------------------ the validator

\* valid_nested_types had every context the kinds of the top level.
valid_nested_types_flat ==
    [ctx \in {"all", "raster", "vector", "csv", "directory"} |->
       {"boolean", "code", "csv", "directory", "file", "freestyle_string",
        "number", "option_string", "percent", "raster", "ratio", "vector"}]

\* valid_nested_types had a band of a raster the kinds of a row or column of
\* a csv.
valid_nested_types_bandsAsColumns ==
    [all |-> {"boolean", "code", "csv", "directory", "file",
              "freestyle_string", "number", "option_string", "percent",
              "raster", "ratio", "vector"},
     raster |-> {"boolean", "code", "freestyle_string", "number",
                 "option_string", "percent", "raster", "ratio", "vector"},
     vector |-> {"code", "freestyle_string", "number", "option_string",
                 "percent", "ratio"},
     csv |-> {"boolean", "code", "freestyle_string", "number",
              "option_string", "percent", "raster", "ratio", "vector"},
     directory |-> {"csv", "directory", "file", "raster", "vector"}]

\* valid_nested_types: the kinds a node may declare, by the context it is in.
valid_nested_types ==
    [all |-> {"boolean", "code", "csv", "directory", "file",
              "freestyle_string", "number", "option_string", "percent",
              "raster", "ratio", "vector"},
     raster |-> {"code", "number", "ratio"},
     vector |-> {"code", "freestyle_string", "number", "option_string",
                 "percent", "ratio"},
     csv |-> {"boolean", "code", "freestyle_string", "number",
              "option_string", "percent", "raster", "ratio", "vector"},
     directory |-> {"csv", "directory", "file", "raster", "vector"}]

\* The state of one validate call while it runs: `attrs` is the local set of
\* attribute names not yet accounted for, `exc`/`line` the exception raised
\* (none: "") and the source line that raised it, `keys` the leftover keys an
\* exhaustiveness failure names, `reports` the subtests recorded so far,
\* `node` the object `arg` refers to, as the call has left it so far.
Started(arg, reports) ==
    [attrs |-> IF arg.k = "dict" THEN Keys(arg) ELSE {},
     exc |-> "", line |-> 0, keys |-> {}, reports |-> reports,
     node |-> arg]

\* An exception raised at a source line. The statements after it in the call
\* are skipped: every statement below hands a state with an exception
\* pending on unchanged.
Raise(st, exc, line) == [st EXCEPT !.exc = exc, !.line = line]

\* self.assertTrue(cond) at a source line.
assertTrue(st, cond, line) ==
    IF st.exc # "" \/ cond THEN st ELSE Raise(st, "AssertionError", line)

\* Remove had attrs been arg's own keys rather than a copy of them: the
\* attribute leaves the node as well.
Remove_fromArg(st, attr, line) ==
    IF st.exc # "" THEN st
    ELSE IF attr \in st.attrs
    THEN [st EXCEPT !.attrs = @ \ {attr},
                    !.node = PyDict(SelectSeq(@.items,
                                              LAMBDA e : e.key # PyStr(attr)))]
    ELSE Raise(st, "KeyError", line)

\* attrs.remove(attr): KeyError when attr is not (or no longer) in attrs.
\* attrs is the set made at line 93, so the node keeps the attribute.
Remove(st, attr, line) ==
    IF st.exc # "" THEN st
    ELSE IF attr \in st.attrs
    THEN [st EXCEPT !.attrs = @ \ {attr}]
    ELSE Raise(st, "KeyError", line)

\* attrs.discard(attr)
Discard(st, attr) ==
    IF st.exc # "" THEN st ELSE [st EXCEPT !.attrs = @ \ {attr}]

RECURSIVE PermissionLetters(_, _, _)
\* PermissionLetters had it not taken a letter seen out of valid_letters.
PermissionLetters_keepsLetters(permissions, i, valid_letters) ==
    IF i > Len(permissions) THEN 0
    ELSE IF SubSeq(permissions, i, i) \notin valid_letters THEN 310
    ELSE PermissionLetters(permissions, i + 1, valid_letters)

\* The loop of validate_permissions_value over the letters from position i,
\* with the letters still allowed: the line that fails, or 0.
PermissionLetters(permissions, i, valid_letters) ==
    IF i > Len(permissions) THEN 0
    ELSE LET letter == SubSeq(permissions, i, i)
         IN  IF letter \notin valid_letters THEN 310
             ELSE PermissionLetters(permissions, i + 1,
                                    valid_letters \ {letter})

\* validate_permissions_value: the line whose assertion fails, or 0 when the
\* value is accepted.
validate_permissions_value(permissions) ==
    IF ~IsInstance(permissions, "str") THEN 306
    ELSE IF ~(Len(permissions.s) > 0) THEN 307
    ELSE PermissionLetters(permissions.s, 1, {"r", "w", "x"})

\* The `permissions` attribute of a directory or file node.
CheckPermissions(st, arg) ==
    IF st.exc # "" THEN st
    ELSE LET line == validate_permissions_value(Get(arg, "permissions"))
         IN  IF line # 0 THEN Raise(st, "AssertionError", line) ELSE st

\* KindOptionString had it checked the keys of a mapping and not the values.
KindOptionString_keysOnly(st, arg) ==
    IF ~Has(arg, "options") THEN Raise(st, "AssertionError", 100)
    ELSE LET options == Get(arg, "options")
             n == Len(options.items)
         IN  IF ~(IsInstance(options, "dict") \/ IsInstance(options, "set"))
             THEN Raise(st, "AssertionError", 103)
             ELSE IF /\ IsInstance(options, "set")
                     /\ \E i \in 1..n : ~IsInstance(options.items[i], "str")
             THEN Raise(st, "AssertionError", 107)
             ELSE IF /\ IsInstance(options, "dict")
                     /\ \E i \in 1..n :
                          ~IsInstance(options.items[i].key, "str")
             THEN Raise(st, "AssertionError", 110)
             ELSE Remove(st, "options", 112)

\* t == 'option_string'
KindOptionString(st, arg) ==
    IF ~Has(arg, "options") THEN Raise(st, "AssertionError", 100)
    ELSE LET options == Get(arg, "options")
             n == Len(options.items)
             badItems == {i \in 1..n : ~IsInstance(options.items[i], "str")}
             badPairs == {i \in 1..n :
                            \/ ~IsInstance(options.items[i].key, "str")
                            \/ ~IsInstance(options.items[i].val, "str")}
             first == CHOOSE i \in badPairs : \A j \in badPairs : i <= j
         IN  IF ~(IsInstance(options, "dict") \/ IsInstance(options, "set"))
             THEN Raise(st, "AssertionError", 103)
             ELSE IF IsInstance(options, "set") /\ badItems # {}
             THEN Raise(st, "AssertionError", 107)
             ELSE IF IsInstance(options, "dict") /\ badPairs # {}
             THEN Raise(st, "AssertionError",
                        IF ~IsInstance(options.items[first].key, "str")
                        THEN 110 ELSE 111)
             ELSE Remove(st, "options", 112)

\* re.compile(pattern) succeeds. Of the pattern syntax only character classes
\* are modelled: a '[' opens a class that must be closed by a later ']'.
RECURSIVE re_compiles(_, _, _)
re_compiles(pattern, i, inClass) ==
    IF i > Len(pattern) THEN ~inClass
    ELSE LET c == SubSeq(pattern, i, i)
         IN  IF ~inClass /\ c = "[" THEN re_compiles(pattern, i + 1, TRUE)
             ELSE IF inClass /\ c = "]" THEN re_compiles(pattern, i + 1, FALSE)
             ELSE re_compiles(pattern, i + 1, inClass)

\* t == 'freestyle_string'
KindFreestyleString(st, arg) ==
    IF ~Has(arg, "regexp") THEN st
    ELSE IF ~IsInstance(Get(arg, "regexp"), "str")
    THEN Raise(st, "AssertionError", 118)
    ELSE IF ~re_compiles(Get(arg, "regexp").s, 1, FALSE)
    THEN Raise(st, "re.error", 119)
    ELSE Remove(st, "regexp", 120)

\* KindNumber had it taken `units` for optional.
KindNumber_unitsOptional(st, arg) ==
    IF ~Has(arg, "units") THEN st
    ELSE IF ~IsInstance(Get(arg, "units"), "pint.Unit")
    THEN Raise(st, "AssertionError", 126)
    ELSE LET s1 == Remove(st, "units", 127)
         IN  IF s1.exc # "" \/ ~Has(arg, "expression") THEN s1
             ELSE IF ~IsInstance(Get(arg, "expression"), "str")
             THEN Raise(s1, "AssertionError", 136)
             ELSE Remove(s1, "expression", 137)

\* t == 'number'
KindNumber(st, arg) ==
    IF ~Has(arg, "units") THEN Raise(st, "AssertionError", 124)
    ELSE IF ~IsInstance(Get(arg, "units"), "pint.Unit")
    THEN Raise(st, "AssertionError", 126)
    ELSE LET s1 == Remove(st, "units", 127)
         IN  IF s1.exc # "" \/ ~Has(arg, "expression") THEN s1
             ELSE IF ~IsInstance(Get(arg, "expression"), "str")
             THEN Raise(s1, "AssertionError", 136)
             ELSE Remove(s1, "expression", 137)

\* The optional 'projected' and 'projection_units' attributes of a raster
\* (first = 154) or of a vector (first = 189): the same eleven lines twice.
Projected(st, arg, first) ==
    IF st.exc # "" \/ ~Has(arg, "projected") THEN st
    ELSE Remove(assertTrue(st, IsInstance(Get(arg, "projected"), "bool"),
                           first + 1),
                "projected", first + 2)

ProjectionUnits(st, arg, first) ==
    IF st.exc # "" \/ ~Has(arg, "projection_units") THEN st
    ELSE IF ~Has(arg, "projected") THEN Raise(st, "KeyError", first + 8)
    ELSE LET s1 == assertTrue(st, Truthy(Get(arg, "projected")), first + 8)
             s2 == assertTrue(s1, IsInstance(Get(arg, "projection_units"),
                                             "pint.Unit"), first + 9)
         IN  Remove(s2, "projection_units", first + 11)

Projection(st, arg, first) ==
    ProjectionUnits(Projected(st, arg, first), arg, first)

\* subTest had it let the exception through: the outcome is recorded and the
\* exception goes on to the caller.
subTest_propagates(st, name, arg, valid_types, required_attrs) ==
    [st EXCEPT
       !.reports = Append(@, [name |-> name, exc |-> st.exc,
                              line |-> st.line, keys |-> st.keys,
                              arg |-> arg, after |-> st.node,
                              valid_types |-> valid_types,
                              required_attrs |-> required_attrs])]

\* Leaving the `with self.subTest(nested_arg_name=name)` block: the outcome
\* of the block is recorded under the subtest's name, and an exception that
\* ended the block is swallowed, so the caller carries on. `arg`,
\* `valid_types` and `required_attrs` are the call's arguments, and `after`
\* the node as the block left it, kept with the report for the properties
\* to refer to.
subTest(st, name, arg, valid_types, required_attrs) ==
    [st EXCEPT
       !.reports = Append(@, [name |-> name, exc |-> st.exc,
                              line |-> st.line, keys |-> st.keys,
                              arg |-> arg, after |-> st.node,
                              valid_types |-> valid_types,
                              required_attrs |-> required_attrs]),
       !.exc = "", !.line = 0, !.keys = {}]

RECURSIVE validate(_, _, _, _, _)
RECURSIVE NestedLoop(_, _, _, _, _, _, _)
RECURSIVE KindLoop(_, _, _, _, _, _)

\* NestedLoop had it no assertion on the key: every entry is entered.
NestedLoop_anyKey(st, entries, i, prefix, keyClass, keyLine, ctx) ==
    IF st.exc # "" \/ i > Len(entries) THEN st
    ELSE LET r == validate(entries[i].val,
                           prefix \o PyFormat(entries[i].key),
                           valid_nested_types[ctx], <<>>, st.reports)
         IN  NestedLoop([st EXCEPT !.reports = r.reports,
                                   !.exc = r.exc, !.line = r.line],
                        entries, i + 1, prefix, keyClass, keyLine, ctx)

\* A loop over a mapping of nested nodes from entry i: each key must be an
\* instance of keyClass (else the assertion at keyLine fails) and each value
\* is validated under the kinds of context ctx. An exception that leaves the
\* nested validate call ends the loop and the caller.
NestedLoop(st, entries, i, prefix, keyClass, keyLine, ctx) ==
    IF st.exc # "" \/ i > Len(entries) THEN st
    ELSE IF ~IsInstance(entries[i].key, keyClass)
    THEN Raise(st, "AssertionError", keyLine)
    ELSE LET r == validate(entries[i].val,
                           prefix \o PyFormat(entries[i].key),
                           valid_nested_types[ctx], <<>>, st.reports)
         IN  NestedLoop([st EXCEPT !.reports = r.reports,
                                   !.exc = r.exc, !.line = r.line],
                        entries, i + 1, prefix, keyClass, keyLine, ctx)

\* t == 'raster'
KindRaster(st, arg, name) ==
    LET s1 == assertTrue(st, Has(arg, "bands"), 142)
        s2 == assertTrue(s1, IsInstance(Get(arg, "bands"), "dict"), 143)
        s3 == NestedLoop(s2, Get(arg, "bands").items, 1,
                         name \o ".bands.", "int", 145, "raster")
        s4 == Remove(s3, "bands", 150)
    IN  Projection(s4, arg, 154)

\* t == 'vector'
KindVector(st, arg, name) ==
    LET s1 == assertTrue(st, Has(arg, "fields"), 172)
        s2 == assertTrue(s1, IsInstance(Get(arg, "fields"), "dict"), 173)
        s3 == NestedLoop(s2, Get(arg, "fields").items, 1,
                         name \o ".fields.", "str", 175, "vector")
        s4 == assertTrue(s3, Has(arg, "geometries"), 181)
        s5 == assertTrue(s4, IsInstance(Get(arg, "geometries"), "set"), 182)
        s6 == Remove(s5, "fields", 184)
        s7 == Remove(s6, "geometries", 185)
    IN  Projection(s7, arg, 189)

\* The `if has_cols or has_rows:` block of the csv branch (lines 213-226).
CsvHeaders(st, arg, name) ==
    IF st.exc # "" \/ ~(Has(arg, "columns") \/ Has(arg, "rows")) THEN st
    ELSE LET direction == IF Has(arg, "rows") THEN "rows" ELSE "columns"
             headers == Get(arg, direction)
             s1 == assertTrue(st, IsInstance(headers, "dict"), 216)
             s2 == NestedLoop(s1, headers.items, 1,
                              name \o "." \o direction \o ".",
                              "str", 219, "csv")
         IN  Discard(Discard(s2, "rows"), "columns")

\* The optional 'excel_ok' attribute of a csv (lines 229-231).
CsvExcelOk(st, arg) ==
    IF st.exc # "" \/ ~Has(arg, "excel_ok") THEN st
    ELSE Discard(assertTrue(st, IsInstance(Get(arg, "excel_ok"), "bool"),
                            230),
                 "excel_ok")

\* KindCsv had it not refused a node with both rows and columns.
KindCsv_bothAllowed(st, arg, name) ==
    CsvExcelOk(CsvHeaders(st, arg, name), arg)

\* t == 'csv'
KindCsv(st, arg, name) ==
    CsvExcelOk(
        CsvHeaders(
            assertTrue(st, ~(Has(arg, "rows") /\ Has(arg, "columns")), 211),
            arg, name),
        arg)

\* The optional 'permissions' attribute of a directory (lines 249-251).
DirectoryPermissions(st, arg) ==
    IF st.exc # "" \/ ~Has(arg, "permissions") THEN st
    ELSE Remove(CheckPermissions(st, arg), "permissions", 251)

\* The optional 'must_exist' attribute of a directory (lines 255-257).
DirectoryMustExist(st, arg) ==
    IF st.exc # "" \/ ~Has(arg, "must_exist") THEN st
    ELSE Remove(assertTrue(st, IsInstance(Get(arg, "must_exist"), "bool"),
                           256),
                "must_exist", 257)

\* t == 'directory'
KindDirectory(st, arg, name) ==
    LET s1 == assertTrue(st, Has(arg, "contents"), 237)
        s2 == assertTrue(s1, IsInstance(Get(arg, "contents"), "dict"), 238)
        s3 == NestedLoop(s2, Get(arg, "contents").items, 1,
                         name \o ".contents.", "str", 240, "directory")
        s4 == Remove(s3, "contents", 245)
    IN  DirectoryMustExist(DirectoryPermissions(s4, arg), arg)

\* t == 'file'
KindFile(st, arg) ==
    IF ~Has(arg, "permissions") THEN st ELSE CheckPermissions(st, arg)

\* The if/elif chain on the kind t (lines 97-263); a kind that no branch
\* names has no rule of its own.
Kind(st, arg, name, t) ==
    CASE t = PyStr("option_string") -> KindOptionString(st, arg)
      [] t = PyStr("freestyle_string") -> KindFreestyleString(st, arg)
      [] t = PyStr("number") -> KindNumber(st, arg)
      [] t = PyStr("raster") -> KindRaster(st, arg, name)
      [] t = PyStr("vector") -> KindVector(st, arg, name)
      [] t = PyStr("csv") -> KindCsv(st, arg, name)
      [] t = PyStr("directory") -> KindDirectory(st, arg, name)
      [] t = PyStr("file") -> KindFile(st, arg)
      [] OTHER -> st

\* KindAllowed had the containment assertion been left out.
KindAllowed_unchecked(t, valid_types) == TRUE

\* t in valid_types
KindAllowed(t, valid_types) == IsInstance(t, "str") /\ t.s \in valid_types

\* `for t in types` from position i: the containment assertion on t, then
\* t's own rule, kind by kind in the iteration order of types.
KindLoop(st, arg, name, types, i, valid_types) ==
    IF st.exc # "" \/ i > Len(types) THEN st
    ELSE IF ~KindAllowed(types[i], valid_types)
    THEN Raise(st, "AssertionError", 95)
    ELSE KindLoop(Kind(st, arg, name, types[i]),
                  arg, name, types, i + 1, valid_types)

\* One `if attr in attrs:` block of lines 267-282: the value of attr must be
\* an instance of one of classes (the assertion at line), and attr is
\* accounted for.
CommonAttr(st, arg, attr, classes, line, removeLine) ==
    IF st.exc # "" \/ attr \notin st.attrs THEN st
    ELSE Remove(assertTrue(st,
                           \E cls \in classes :
                             IsInstance(Get(arg, attr), cls),
                           line),
                attr, removeLine)

\* CommonAttrs had it forgotten to take `type` out of attrs.
CommonAttrs_keepsType(st, arg) ==
    LET s1 == CommonAttr(st, arg, "name", {"str"}, 268, 269)
        s2 == CommonAttr(s1, arg, "about", {"str"}, 271, 272)
    IN  CommonAttr(s2, arg, "required", {"bool", "str"}, 276, 278)

\* Lines 267-282: the attributes every node may carry.
CommonAttrs(st, arg) ==
    LET s1 == CommonAttr(st, arg, "name", {"str"}, 268, 269)
        s2 == CommonAttr(s1, arg, "about", {"str"}, 271, 272)
        s3 == CommonAttr(s2, arg, "required", {"bool", "str"}, 276, 278)
    IN  CommonAttr(s3, arg, "type", {"str", "set"}, 280, 282)

\* Leftover had the final check been left out.
Leftover_ignored(st) == st

\* Lines 286-288: nothing may be left in attrs.
Leftover(st) ==
    IF st.exc = "" /\ st.attrs # {}
    THEN [Raise(st, "AssertionError", 287) EXCEPT !.keys = st.attrs]
    ELSE st

\* RequiredAttrs had it required nothing.
RequiredAttrs_none(st, arg, required_attrs) == st

\* Lines 87-88: the attributes required whatever the kind.
RequiredAttrs(st, arg, required_attrs) ==
    assertTrue(st, \A i \in 1..Len(required_attrs) :
                      Has(arg, required_attrs[i]), 88)

\* Lines 91-263: arg['type'] as the sequence `types`, and the loop over it.
Types(st, arg, name, valid_types) ==
    IF st.exc # "" THEN st
    ELSE IF ~Has(arg, "type") THEN Raise(st, "KeyError", 92)
    ELSE LET type == Get(arg, "type")
         IN  KindLoop(st, arg, name,
                      IF IsInstance(type, "set") THEN type.items
                      ELSE <<type>>,
                      1, valid_types)

\* The body of the `with` block of validate (lines 87-288).
Body(st, arg, name, valid_types, required_attrs) ==
    IF ~IsInstance(arg, "dict") THEN Raise(st, "TypeError", 92)
    ELSE LET s1 == RequiredAttrs(st, arg, required_attrs)
             s2 == Types(s1, arg, name, valid_types)
             s3 == CommonAttrs(s2, arg)
         IN  Leftover(s3)

\* validate(arg, name, valid_types, required_attrs), called with `reports`
\* recorded so far: the reports after the call, and the exception that
\* leaves the call, if any.
validate(arg, name, valid_types, required_attrs, reports) ==
    subTest(Body(Started(arg, reports), arg, name, valid_types,
                 required_attrs),
            name, arg, valid_types, required_attrs)

\* ------------------------------------------------------------ the inputs

\* The kinds nodes are drawn with: the twelve of valid_nested_types['all'],
\* and 'integer', which spec_utils.LULC and SOIL_GROUP declare for a band.
Kinds == valid_nested_types.all \cup {"integer"}

Attr(name, val) == Entry(PyStr(name), val)

\* node with attribute name set to val (name is not yet in node).
With(node, name, val) == PyDict(Append(node.items, Attr(name, val)))

TypeOnly(K) == PyDict(<<Attr("type", PyStr(K))>>)

Meter == PyUnit("m", 0)

\* A node built as spec_utils.METER_RASTER's band is.
NumberNode == With(TypeOnly("number"), "units", Meter)

\* A mapping with the one entry key: val.
Single(key, val) == PyDict(<<Entry(key, val)>>)

Empty == PyDict(<<>>)

\* The nodes of kind K that carry `type` and the attributes K's branch
\* requires, and nothing else.
MinNodes(K) ==
    CASE K = "option_string" ->
           {With(TypeOnly(K), "options", PySet(<<PyStr("a")>>)),
            With(TypeOnly(K), "options",
                 Single(PyStr("a"), PyStr("desc")))}
      [] K = "number" -> {NumberNode}
      [] K = "raster" ->
           {With(TypeOnly(K), "bands", Empty),
            With(TypeOnly(K), "bands", Single(PyInt(1), NumberNode))}
      [] K = "vector" ->
           {With(With(TypeOnly(K), "fields", Empty),
                 "geometries", PySet(<<PyStr("POLYGON")>>))}
      [] K = "directory" -> {With(TypeOnly(K), "contents", Empty)}
      [] OTHER -> {TypeOnly(K)}

AllMinNodes == UNION {MinNodes(K) : K \in Kinds}

RECURSIVE Strings(_, _)
\* The strings over alphabet of length at most n.
Strings(alphabet, n) ==
    IF n = 0 THEN {""}
    ELSE LET shorter == Strings(alphabet, n - 1)
         IN  shorter \cup {s \o c : s \in shorter, c \in alphabet}

\* Values drawn for a `permissions` attribute.
PermissionValues ==
    {PyStr(s) : s \in Strings({"r", "w", "x", "q"}, MaxPermLen)}
      \cup {PyInt(7), PyNone, PySet(<<PyStr("r"), PyStr("w")>>)}

\* Values drawn for an `options` attribute.
OptionValues ==
    {PySet(<<>>), PySet(<<PyStr("a")>>), PySet(<<PyStr("a"), PyInt(1)>>),
     PySet(<<PyInt(1)>>), Empty, Single(PyStr("a"), PyStr("desc")),
     Single(PyStr("a"), PyInt(1)), Single(PyInt(1), PyStr("desc")),
     PyDict(<<Entry(PyStr("a"), PyStr("desc")), Entry(PyStr("b"), PyInt(2))>>),
     PyDict(<<Entry(PyInt(1), PyInt(2))>>), PyStr("ab"), PyNone}

\* Values drawn for a `units` or `projection_units` attribute: units of the
\* shared registry and of another one, and values that are no units.
UnitValues ==
    {Meter, UnitDiv(PyUnit("mm", 0), PyUnit("year", 0)), PyUnit("m", 1),
     PyStr("m"), PyNone}

BoolValues == {PyBool(TRUE), PyBool(FALSE), PyStr("yes"), PyInt(1)}

\* node with attribute name set to each of vals, and node itself.
Vary(nodes, name, vals) ==
    nodes \cup {With(n, name, v) : n \in nodes, v \in vals}

OptionStringNodes == Vary({TypeOnly("option_string")}, "options", OptionValues)

FreestyleStringNodes ==
    Vary({TypeOnly("freestyle_string")}, "regexp",
         {PyStr("[a-zA-Z0-9_-]*"), PyStr("[unterminated"), PyStr("a+"),
          PyInt(1)})

NumberNodes ==
    Vary(Vary({TypeOnly("number")}, "units", UnitValues),
         "expression", {PyStr("value >= 0"), PyStr("value >"), PyInt(1)})

FileNodes == Vary({TypeOnly("file")}, "permissions", PermissionValues)

\* node with the `name` and `about` the top level requires.
Top(node) ==
    PyDict(<<Attr("name", PyStr("n")), Attr("about", PyStr("a"))>>
             \o node.items)

\* The nested nodes drawn as band, field, row, column or directory entry: a
\* minimal node of each kind, nodes that break their kind's rule, a node that
\* carries name and about, and a value that is no node.
Children ==
    AllMinNodes \cup {TypeOnly("number"), TypeOnly("option_string"),
                      With(TypeOnly("file"), "permissions", PyStr("rw")),
                      With(NumberNode, "extra", PyNone), Top(NumberNode),
                      With(NumberNode, "name", PyInt(1)),
                      With(NumberNode, "about", PyNone),
                      PyStr("x")}
      \cup {PyDict(<<Attr("type", PySet(<<PyStr(p[1]), PyStr(p[2])>>))>>
                     \o body) :
              p \in {<<"number", "csv">>, <<"csv", "number">>,
                     <<"number", "file">>, <<"file", "number">>},
              body \in {<<>>, <<Attr("units", Meter)>>}}

\* Mappings of nested nodes drawn as `bands`, `fields`, `rows`, `columns` or
\* `contents`, k1 and k2 being keys of the class the container asks for.
Mappings(k1, k2) ==
    {Empty, PyStr("none")}
      \cup {Single(k1, c) : c \in Children}
      \cup {PyDict(<<Entry(k1, c1), Entry(k2, c2)>>) :
              c1 \in {NumberNode, TypeOnly("number"), TypeOnly("csv")},
              c2 \in {NumberNode, TypeOnly("number"), TypeOnly("file")}}
      \cup {Single(PyInt(0), NumberNode), Single(PyInt(-1), NumberNode),
            Single(PyBool(TRUE), NumberNode), Single(PyNone, NumberNode),
            PyDict(<<Entry(PyNone, TypeOnly("number")),
                     Entry(k2, TypeOnly("number"))>>)}

StrMappings == Mappings(PyStr("h"), PyStr("g"))
                 \cup {Single(PyStr("x"), NumberNode)}

IntMappings == Mappings(PyInt(1), PyInt(2))
                 \cup {Single(PyStr("x"), NumberNode)}

\* spec_utils.ALL_GEOMS
ALL_GEOMS ==
    {"LINESTRING", "MULTILINESTRING", "POLYGON", "MULTIPOLYGON", "POINT",
     "MULTIPOINT"}

\* projected / projection_units drawn on a raster or vector base node.
ProjectionNodes(base) ==
    Vary(Vary({base}, "projected", BoolValues),
         "projection_units", {Meter, PyUnit("m", 1), PyStr("m")})

RasterNodes ==
    Vary({TypeOnly("raster")}, "bands", IntMappings)
      \cup ProjectionNodes(With(TypeOnly("raster"), "bands", Empty))

GeometryValues ==
    {PySet(<<PyStr("POLYGON"), PyStr("MULTIPOLYGON")>>), PySet(<<>>),
     PySet(<<PyStr("CIRCLE")>>), PyStr("POLYGON")}

VectorNodes ==
    Vary(Vary({TypeOnly("vector")}, "fields",
              {Empty, PyStr("none"), Single(PyStr("f"), NumberNode),
               Single(PyStr("f"), TypeOnly("raster")),
               Single(PyInt(1), NumberNode)}),
         "geometries", GeometryValues)
      \cup {With(With(TypeOnly("vector"), "fields", m), "geometries",
                 PySet(<<PyStr("POINT")>>)) : m \in StrMappings}
      \cup ProjectionNodes(CHOOSE n \in MinNodes("vector") : TRUE)

CsvNodes ==
    Vary(Vary(Vary({TypeOnly("csv")}, "rows",
                   {Empty, Single(PyStr("h"), NumberNode),
                    Single(PyStr("h"), TypeOnly("number")), PyStr("none")}),
              "columns",
              {Empty, Single(PyStr("h"), NumberNode),
               Single(PyInt(1), NumberNode), PyNone}),
         "excel_ok", {PyBool(TRUE), PyBool(FALSE), PyStr("yes")})
      \cup {With(TypeOnly("csv"), direction, m) :
              direction \in {"rows", "columns"}, m \in StrMappings}

RECURSIVE DirectoryChains(_)
\* Directories nested through `contents` to depth at most n, a file at the
\* bottom.
DirectoryChains(n) ==
    IF n = 0 THEN {TypeOnly("file")}
    ELSE LET inner == DirectoryChains(n - 1)
         IN  inner \cup {With(TypeOnly("directory"), "contents",
                              Single(PyStr("d"), c)) : c \in inner}

DirectoryNodes ==
    Vary({TypeOnly("directory")}, "contents", StrMappings)
      \cup Vary(Vary(MinNodes("directory"), "permissions", PermissionValues),
                "must_exist", {PyBool(FALSE), PyStr("no")})
      \cup DirectoryChains(MaxDirDepth)
      \cup {With(TypeOnly("directory"), "contents",
                 Single(PyStr("t"),
                        With(TypeOnly("csv"), "columns",
                             Single(PyStr("r"),
                                    With(TypeOnly("raster"), "bands",
                                         Single(PyInt(1), c)))))) :
              c \in {NumberNode, TypeOnly("number"), TypeOnly("csv")}}

\* The attributes of one minimal node of kind K, `type` apart.
MinBody(K) == Tail((CHOOSE n \in MinNodes(K) : TRUE).items)

\* A node whose type is a set, iterated in the order of kinds.
SetNode(kinds, body) ==
    PyDict(<<Attr("type", PySet([i \in 1..Len(kinds) |-> PyStr(kinds[i])]))>>
             \o body)

\* Nodes that declare a set of kinds: every ordered pair of kinds with the
\* attributes both require, and pairs that share an optional attribute.
TypeSetNodes ==
    {SetNode(p, MinBody(p[1]) \o MinBody(p[2])) :
       p \in {q \in Kinds \X Kinds : q[1] # q[2]}}
      \cup {SetNode(<<K>>, MinBody(K)) : K \in Kinds}
      \cup {SetNode(p, MinBody("raster") \o MinBody("vector") \o extra) :
              p \in {<<"raster", "vector">>, <<"vector", "raster">>},
              extra \in {<<Attr("projected", PyBool(TRUE))>>,
                         <<Attr("projected", PyBool(TRUE)),
                           Attr("projection_units", Meter)>>,
                         <<Attr("projection_units", Meter)>>}}
      \cup {SetNode(p, MinBody("directory")
                         \o <<Attr("permissions", PyStr(perm))>>) :
              p \in {<<"directory", "file">>, <<"file", "directory">>},
              perm \in {"rw", "rr"}}
      \cup {SetNode(kinds, body) :
              kinds \in {<<"number", "csv", "ratio">>, <<"number", "integer">>,
                         <<"integer", "number">>},
              body \in {<<>>, MinBody("number")}}

\* Every attribute name some branch of the validator reads, and one that
\* none does.
AttrNames ==
    {"options", "regexp", "units", "expression", "bands", "projected",
     "projection_units", "fields", "geometries", "rows", "columns",
     "excel_ok", "contents", "permissions", "must_exist", "extra"}

\* A valid node with one more attribute.
ExtraAttrNodes ==
    {With(base, X, PyBool(TRUE)) :
       base \in AllMinNodes
                  \cup {With(NumberNode, "required", PyBool(FALSE)),
                        SetNode(<<"raster", "vector">>,
                                MinBody("raster") \o MinBody("vector")),
                        SetNode(<<"code", "ratio">>, <<>>)},
       X \in AttrNames}

\* The nodes drawn without name and about.
PlainNodes ==
    {TypeOnly(K) : K \in Kinds} \cup AllMinNodes \cup OptionStringNodes
      \cup FreestyleStringNodes \cup NumberNodes \cup FileNodes
      \cup RasterNodes \cup VectorNodes \cup CsvNodes \cup DirectoryNodes
      \cup TypeSetNodes
      \cup {n \in ExtraAttrNodes :
              Cardinality(Keys(n)) = Len(n.items)}

\* The pre-built nodes of spec_utils (lines 41-151), attributes in the order
\* they are written, as models use them for an argument; METER_RASTER,
\* which has neither name nor about, is given them.
LibraryArgs ==
    LET WORKSPACE ==
            PyDict(<<
              Entry(PyStr("name"),
                    PyStr("workspace")),
              Entry(PyStr("about"),
                    PyStr("The folder where all the model's output files "
                          \o "will be written. If this folder does not exist, "
                          \o "it will be created. If data already exists in "
                          \o "the folder, it will be overwritten.")),
              Entry(PyStr("type"),
                    PyStr("directory")),
              Entry(PyStr("contents"),
                    PyDict(<<>>)),
              Entry(PyStr("must_exist"),
                    PyBool(FALSE)),
              Entry(PyStr("permissions"),
                    PyStr("rwx"))>>)
        SUFFIX ==
            PyDict(<<
              Entry(PyStr("name"),
                    PyStr("file suffix")),
              Entry(PyStr("about"),
                    PyStr("Suffix that will be appended to all output file "
                          \o "names. Useful to differentiate between model "
                          \o "runs.")),
              Entry(PyStr("type"),
                    PyStr("freestyle_string")),
              Entry(PyStr("required"),
                    PyBool(FALSE)),
              Entry(PyStr("regexp"),
                    PyStr("[a-zA-Z0-9_-]*"))>>)
        N_WORKERS ==
            PyDict(<<
              Entry(PyStr("name"),
                    PyStr("taskgraph n_workers parameter")),
              Entry(PyStr("about"),
                    PyStr("The n_workers parameter to provide to taskgraph."
                          \o " -1 will cause all jobs to run synchronously. 0 "
                          \o "will run all jobs in the same process, but "
                          \o "scheduling will take place asynchronously. Any "
                          \o "other positive integer will cause that many "
                          \o "processes to be spawned to execute tasks.")),
              Entry(PyStr("type"),
                    PyStr("number")),
              Entry(PyStr("units"),
                    PyUnit("none", 0)),
              Entry(PyStr("required"),
                    PyBool(FALSE)),
              Entry(PyStr("expression"),
                    PyStr("value >= -1"))>>)
        METER_RASTER ==
            PyDict(<<
              Entry(PyStr("type"),
                    PyStr("raster")),
              Entry(PyStr("bands"),
                    PyDict(<<
                      Entry(PyInt(1),
                            PyDict(<<
                              Entry(PyStr("type"),
                                    PyStr("number")),
                              Entry(PyStr("units"),
                                    PyUnit("meter", 0))>>))>>))>>)
        AOI ==
            PyDict(<<
              Entry(PyStr("type"),
                    PyStr("vector")),
              Entry(PyStr("fields"),
                    PyDict(<<>>)),
              Entry(PyStr("geometries"),
                    PySet(<<PyStr("POLYGON"), PyStr("MULTIPOLYGON")>>)),
              Entry(PyStr("name"),
                    PyStr("area of interest")),
              Entry(PyStr("about"),
                    PyStr("A polygon vector containing features over which "
                          \o "to aggregate and summarize the final results."))>>)
        LULC ==
            PyDict(<<
              Entry(PyStr("type"),
                    PyStr("raster")),
              Entry(PyStr("bands"),
                    PyDict(<<
                      Entry(PyInt(1),
                            PyDict(<<
                              Entry(PyStr("type"),
                                    PyStr("integer"))>>))>>)),
              Entry(PyStr("about"),
                    PyStr("Map of land use/land cover codes.")),
              Entry(PyStr("name"),
                    PyStr("land use/land cover"))>>)
        DEM ==
            PyDict(<<
              Entry(PyStr("type"),
                    PyStr("raster")),
              Entry(PyStr("bands"),
                    PyDict(<<
                      Entry(PyInt(1),
                            PyDict(<<
                              Entry(PyStr("type"),
                                    PyStr("number")),
                              Entry(PyStr("units"),
                                    PyUnit("meter", 0))>>))>>)),
              Entry(PyStr("about"),
                    PyStr("Map of elevation above sea level.")),
              Entry(PyStr("name"),
                    PyStr("digital elevation model"))>>)
        PRECIP ==
            PyDict(<<
              Entry(PyStr("type"),
                    PyStr("raster")),
              Entry(PyStr("bands"),
                    PyDict(<<
                      Entry(PyInt(1),
                            PyDict(<<
                              Entry(PyStr("type"),
                                    PyStr("number")),
                              Entry(PyStr("units"),
                                    UnitDiv(PyUnit("millimeter", 0), PyUnit("year", 0)))>>))>>)),
              Entry(PyStr("about"),
                    PyStr("Map of average annual precipitation.")),
              Entry(PyStr("name"),
                    PyStr("precipitation"))>>)
        ETO ==
            PyDict(<<
              Entry(PyStr("name"),
                    PyStr("evapotranspiration")),
              Entry(PyStr("type"),
                    PyStr("raster")),
              Entry(PyStr("bands"),
                    PyDict(<<
                      Entry(PyInt(1),
                            PyDict(<<
                              Entry(PyStr("type"),
                                    PyStr("number")),
                              Entry(PyStr("units"),
                                    PyUnit("millimeter", 0))>>))>>)),
              Entry(PyStr("about"),
                    PyStr("Map of evapotranspiration values."))>>)
        SOIL_GROUP ==
            PyDict(<<
              Entry(PyStr("type"),
                    PyStr("raster")),
              Entry(PyStr("bands"),
                    PyDict(<<
                      Entry(PyInt(1),
                            PyDict(<<
                              Entry(PyStr("type"),
                                    PyStr("integer"))>>))>>)),
              Entry(PyStr("about"),
                    PyStr("Map of soil hydrologic groups. Pixels may have "
                          \o "values 1, 2, 3, or 4, corresponding to soil "
                          \o "hydrologic groups A, B, C, or D, respectively.")),
              Entry(PyStr("name"),
                    PyStr("soil hydrologic group"))>>)
        THRESHOLD_FLOW_ACCUMULATION ==
            PyDict(<<
              Entry(PyStr("expression"),
                    PyStr("value >= 0")),
              Entry(PyStr("type"),
                    PyStr("number")),
              Entry(PyStr("units"),
                    PyUnit("pixel", 0)),
              Entry(PyStr("about"),
                    PyStr("The number of upstream pixels that must flow "
                          \o "into a pixel before it is classified as a "
                          \o "stream.")),
              Entry(PyStr("name"),
                    PyStr("threshold flow accumulation"))>>)
    IN  {WORKSPACE, SUFFIX, N_WORKERS, Top(METER_RASTER), AOI, LULC, DEM,
         PRECIP, ETO, SOIL_GROUP, THRESHOLD_FLOW_ACCUMULATION}

\* The top-level arguments drawn: every plain node with name and about,
\* nodes whose common attributes are missing or of the wrong class, and the
\* pre-built nodes.
TopArgs ==
    {Top(n) : n \in PlainNodes}
      \cup LibraryArgs
      \cup {NumberNode, TypeOnly("integer"),
            With(NumberNode, "name", PyStr("n")),
            With(NumberNode, "about", PyStr("a")),
            With(With(NumberNode, "name", PyInt(1)), "about", PyStr("a")),
            With(With(NumberNode, "name", PyStr("n")), "about", PyNone),
            PyDict(<<Attr("name", PyStr("n")), Attr("about", PyStr("a"))>>)}
      \cup {With(Top(NumberNode), "required", v) :
              v \in {PyBool(TRUE), PyStr("other_arg"), PyInt(1), PyNone}}

\* The arguments drawn beside the one under study: one that is well formed
\* and one that is not.
GoodArg == Top(NumberNode)

BadArg == Top(TypeOnly("number"))

\* A model: its name in the model table and the `args` of its ARGS_SPEC.
Model(name, args) == [name |-> name, args |-> args]

\* The model tables drawn: a first model with two arguments, in either
\* order, and a second model with one.
ModelTables ==
    {<<Model("m1", IF first THEN <<Entry(PyStr("a"), A), Entry(PyStr("b"), B)>>
                   ELSE <<Entry(PyStr("b"), B), Entry(PyStr("a"), A)>>),
       Model("m2", <<Entry(PyStr("c"), C)>>)>> :
       A \in TopArgs, B \in {GoodArg, BadArg}, C \in {GoodArg, BadArg},
       first \in BOOLEAN}

\* A Quantity: a magnitude with a unit.
PyQuantity(magnitude, unit) == PyVal("quantity", unit.s, magnitude, unit.items)

\* The unit of soil erodibility issued by another registry.
ForeignErodibility ==
    UnitDiv(UnitMul(PyUnit("t", 1), PyUnit("hr", 1)),
            UnitMul(PyUnit("MJ", 1), PyUnit("mm", 1)))

\* Arguments json.dumps cannot encode: a Quantity where a Unit belongs, at
\* the top of an argument and inside a field of a vector, and a Quantity
\* after a Unit of another registry.
Unserializable ==
    {Top(With(TypeOnly("number"), "units", PyQuantity(1, Meter))),
     Top(With(With(TypeOnly("number"), "units", ForeignErodibility),
              "expression", PyQuantity(1, Meter))),
     Top(PyDict(<<Attr("type", PyStr("vector")),
                  Attr("fields",
                       PyDict(<<Attr("f", With(TypeOnly("number"), "units",
                                               PyQuantity(1, Meter)))>>)),
                  Attr("geometries", PySet(<<PyStr("POINT")>>))>>))}

\* A number in meters per second, a number in square meters, and a vector
\* of polygons.
SpeedNode ==
    Top(With(TypeOnly("number"), "units",
             UnitDiv(PyUnit("m", 0), PyUnit("s", 0))))

AreaNode == Top(With(TypeOnly("number"), "units", UnitPow(PyUnit("m", 0), 2)))

PolygonsNode ==
    Top(PyDict(<<Attr("type", PyStr("vector")),
                 Attr("fields", PyDict(<<Attr("f", SpeedNode)>>)),
                 Attr("geometries",
                      PySet(<<PyStr("POLYGON"), PyStr("MULTIPOLYGON")>>))>>))

\* The model tables drawn for serialization: one model with one argument.
SpecTables ==
    {<<Model("m1", <<Entry(PyStr("a"), A)>>)>> :
       A \in TopArgs \cup Unserializable
              \cup {SpeedNode, AreaNode, PolygonsNode}}

\* A model's ARGS_SPEC, and the model an ARGS_SPEC belongs to.
ARGS_SPEC(model) ==
    PyDict(<<Attr("model_name", PyStr(model.name)),
             Attr("args", PyDict(model.args))>>)

ModelOf(spec) == Model(Get(spec, "model_name").s, Get(spec, "args").items)

\* The number of factors and the largest exponent of the units drawn for
\* format_unit, over these unit names.
MaxFactors == 3

MaxExponent == 2

BaseUnits ==
    {"meter", "second", "hectare", "year", "kilogram", "megajoule"}

DrawnUnits ==
    {MakeUnit("", exponents, 0) :
       exponents \in
         UNION {[names -> (-MaxExponent..MaxExponent) \ {0}] :
                  names \in {N \in SUBSET BaseUnits :
                               Cardinality(N) \in 1..MaxFactors}}}

\* The soil erodibility unit as models write it: with hectares above and
\* below, and with the hour as h or hr.
Erodibility ==
    {UnitDiv(UnitMul(PyUnit("t", 0), UnitMul(PyUnit(hour, 0), PyUnit("ha", 0))),
             UnitMul(PyUnit("ha", 0),
                     UnitMul(PyUnit("MJ", 0), PyUnit("mm", 0)))) :
       hour \in {"h", "hr"}}
      \cup {UnitDiv(UnitMul(PyUnit("t", 0), PyUnit(hour, 0)),
                    UnitMul(PyUnit("MJ", 0), PyUnit("mm", 0))) :
              hour \in {"h", "hr"}}

\* The arguments drawn for format_unit: units of the shared registry, units
\* of another registry, and values that are no Unit.
FormatInputs ==
    DrawnUnits \cup Erodibility
      \cup {UnitDiv(PyUnit("m", 0), PyUnit("s", 0)),
            UnitDiv(PyUnit("m", 1), PyUnit("s", 1)),
            UnitDiv(UnitMul(PyUnit("t", 1), PyUnit("hr", 1)),
                    UnitMul(PyUnit("MJ", 1), PyUnit("mm", 1))),
            PyUnit("m", 1), PyUnit("none", 0), PyUnit("currency", 0),
            PyUnit("pixel", 0), PyUnit("linear_unit", 0),
            PyUnit("international_unit", 0),
            UnitDiv(PyUnit("m", 0), PyUnit("m", 0)),
            PyStr("m"), PyStr("m/s"), PyInt(1), PyNone,
            PyQuantity(1, Meter), PySet(<<>>), PyDict(<<>>)}

\* No call of spec_utils made yet.
NoCall == [fn |-> "", arg |-> PyNone, text |-> "", exc |-> "", after |-> PyNone]

\* ------------------------------------------------------------ the test

VARIABLES
    models,   \* the model table and each model's ARGS_SPEC['args']
    mi,       \* position of test_model_specs in the model table
    ai,       \* position in the current model's args
    reports,  \* the subtests recorded, in the order they ended
    status,   \* of test_model_specs: "running", "ended" or "error"
    call,     \* the last call of spec_utils: its function, its argument
              \* before and after, and the text returned or exception raised
    metadata, \* model_metadata.MODEL_METADATA: each model name's aliases
    namespace, \* the models SelectModelAction has stored on the namespace
    exited,   \* the exit status of the command line, <<>> while it runs
    LOCALE    \* natcap.invest.LOCALE

cliVars == <<metadata, namespace, exited, LOCALE>>

vars == <<models, mi, ai, reports, status, call, metadata, namespace, exited,
          LOCALE>>

\* The command line is not in use.
CliIdle ==
    /\ metadata = <<>>
    /\ namespace = <<>>
    /\ exited = <<>>
    /\ LOCALE = "en"

Init ==
    /\ models \in ModelTables
    /\ mi = 1
    /\ ai = 1
    /\ reports = <<>>
    /\ status = "running"
    /\ call = NoCall
    /\ CliIdle

\* Lines 56-63: one pass of the loop over a model's arguments, the whole
\* call of validate on the argument. An exception that leaves the call ends
\* the test method. The argument is the object in the model's ARGS_SPEC,
\* so what the call does to it stays in the model.
ValidateArg ==
    /\ status = "running"
    /\ mi <= Len(models)
    /\ ai <= Len(models[mi].args)
    /\ \E r \in {validate(models[mi].args[ai].val,
                          models[mi].name \o "."
                            \o PyFormat(models[mi].args[ai].key),
                          valid_nested_types.all, <<"name", "about">>,
                          reports)} :
         /\ reports' = r.reports
         /\ ai' = IF r.exc = "" THEN ai + 1 ELSE ai
         /\ status' = IF r.exc = "" THEN status ELSE "error"
         /\ models' = [models EXCEPT ![mi].args[ai].val = r.node]
    /\ UNCHANGED <<mi, call>>
    /\ UNCHANGED cliVars

\* Lines 50-52: the loop over the model table moves to the next model once
\* the arguments of the current one are exhausted.
NextModel ==
    /\ status = "running"
    /\ mi <= Len(models)
    /\ ai > Len(models[mi].args)
    /\ mi' = mi + 1
    /\ ai' = 1
    /\ UNCHANGED <<models, reports, status, call>>
    /\ UNCHANGED cliVars

\* The loop over the model table is exhausted: test_model_specs returns.
Return ==
    /\ status = "running"
    /\ mi > Len(models)
    /\ status' = "ended"
    /\ UNCHANGED <<models, mi, ai, reports, call>>
    /\ UNCHANGED cliVars

Next == ValidateArg \/ NextModel \/ Return

Spec == Init /\ [][Next]_vars

\* ------------------------------------------------------------ spec_utils calls

\* A call of format_unit on one of the arguments drawn, the one call of a
\* behaviour.
FormatUnit ==
    /\ call = NoCall
    /\ \E unit \in FormatInputs :
         \E r \in {format_unit(unit)} :
           call' = [fn |-> "format_unit", arg |-> unit, text |-> r.text,
                    exc |-> r.exc, after |-> r.obj]
    /\ UNCHANGED <<models, mi, ai, reports, status>>
    /\ UNCHANGED cliVars

UnitInit ==
    /\ models = <<>>
    /\ mi = 1
    /\ ai = 1
    /\ reports = <<>>
    /\ status = "ended"
    /\ call = NoCall
    /\ CliIdle

UnitNext == FormatUnit

UnitSpec == UnitInit /\ [][UnitNext]_vars

\* A call of serialize_args_spec on a model's ARGS_SPEC, at any moment of
\* the test. The argument is the model's own object, so what the call does
\* to it stays in the model.
SerializeArgsSpec ==
    /\ \E m \in 1..Len(models) :
         \E r \in {serialize_args_spec(ARGS_SPEC(models[m]))} :
           /\ call' = [fn |-> "serialize_args_spec",
                       arg |-> ARGS_SPEC(models[m]), text |-> r.text,
                       exc |-> r.exc, after |-> r.obj]
           /\ models' = [models EXCEPT ![m] = ModelOf(r.obj)]
    /\ UNCHANGED <<mi, ai, reports, status>>
    /\ UNCHANGED cliVars

SerializerInit ==
    /\ models \in SpecTables
    /\ mi = 1
    /\ ai = 1
    /\ reports = <<>>
    /\ status = "running"
    /\ call = NoCall
    /\ CliIdle

SerializerNext == ValidateArg \/ NextModel \/ Return \/ SerializeArgsSpec

SerializerSpec == SerializerInit /\ [][SerializerNext]_vars

\* ------------------------------------------------------------ properties

\* s starts with prefix.
StartsWith(s, prefix) ==
    Len(s) >= Len(prefix) /\ SubSeq(s, 1, Len(prefix)) = prefix

\* The name test_model_specs gives the j-th argument of the m-th model.
ArgName(m, j) ==
    models[m].name \o "." \o PyFormat(models[m].args[j].key)

\* The j-th argument of the m-th model has been validated.
Validated(m, j) == m < mi \/ (m = mi /\ j < ai)

\* Report i belongs to the subtree of the argument named top.
Under(i, top) ==
    reports[i].name = top \/ StartsWith(reports[i].name, top \o ".")

Ok(r) == r.exc = ""

\* The kinds a node declares, in the order they are iterated.
DeclaredKinds(arg) ==
    LET type == Get(arg, "type")
    IN  IF IsInstance(type, "set") THEN type.items ELSE <<type>>

\* arg is a node that declares kind K.
Declares(arg, K) ==
    /\ IsInstance(arg, "dict")
    /\ Has(arg, "type")
    /\ \E i \in 1..Len(DeclaredKinds(arg)) : DeclaredKinds(arg)[i] = PyStr(K)

\* The report is of a node of the single kind K, allowed where it stands,
\* that carries the required common attributes as strings and otherwise
\* only attributes among own: nothing but the attributes in own can make
\* its validation fail.
PlainOf(r, K, own) ==
    /\ IsInstance(r.arg, "dict")
    /\ Has(r.arg, "type")
    /\ Get(r.arg, "type") = PyStr(K)
    /\ K \in r.valid_types
    /\ \A i \in 1..Len(r.required_attrs) : Has(r.arg, r.required_attrs[i])
    /\ Keys(r.arg) \subseteq {"type", "name", "about"} \cup own
    /\ \A a \in {"name", "about"} :
         Has(r.arg, a) => IsInstance(Get(r.arg, a), "str")

\* C1: every top-level argument of every model is validated on its own: a
\* failure of one argument never ends the test, every argument validated so
\* far has its report, and a well-formed argument is reported valid whatever
\* the arguments beside it are.
C1_ArgumentsIsolated ==
    /\ status # "error"
    /\ \A m \in 1..Len(models) : \A j \in 1..Len(models[m].args) :
         Validated(m, j) =>
           \E i \in 1..Len(reports) :
             /\ reports[i].name = ArgName(m, j)
             /\ reports[i].arg = models[m].args[j].val
             /\ models[m].args[j].val = GoodArg => Ok(reports[i])
    /\ status = "ended" =>
         \A m \in 1..Len(models) : \A j \in 1..Len(models[m].args) :
           Validated(m, j)

\* A malformed first argument, a well-formed second one reported valid
\* after it, and the next model's argument validated after both.
C1_Witness ==
    /\ status = "ended"
    /\ \E i, j, k \in 1..Len(reports) :
         /\ i < j /\ j < k
         /\ reports[i].name = "m1.a" /\ ~Ok(reports[i])
         /\ reports[j].name = "m1.b" /\ reports[j].arg = GoodArg
         /\ Ok(reports[j])
         /\ reports[k].name = "m2.c"

NestingAttrs ==
    {<<"raster", "bands", "int">>, <<"vector", "fields", "str">>,
     <<"csv", "rows", "str">>, <<"csv", "columns", "str">>,
     <<"directory", "contents", "str">>}

\* The entries of mapping that precede its first key not of class cls.
EnteredEntries(mapping, cls) ==
    {i \in 1..Len(mapping.items) :
       \A j \in 1..i : IsInstance(mapping.items[j].key, cls)}

FirstDisallowed(kinds, valid_types) ==
    CHOOSE i \in 1..Len(kinds) :
      /\ ~(IsInstance(kinds[i], "str") /\ kinds[i].s \in valid_types)
      /\ \A j \in 1..(i - 1) :
           IsInstance(kinds[j], "str") /\ kinds[j].s \in valid_types

\* The lines of the kind-specific rules, validate_permissions_value's
\* included.
RuleLines == (96..263) \cup {306, 307, 310}

\* C3, as claimed: a node that declares a kind its context does not allow
\* fails with the containment violation (the assertion of line 95). Stated
\* of the nodes that carry the attributes required of every node.
C3_ContainmentViolation ==
    \A i \in 1..Len(reports) : \A K \in Kinds :
      (/\ Declares(reports[i].arg, K)
       /\ K \notin reports[i].valid_types
       /\ \A a \in 1..Len(reports[i].required_attrs) :
            Has(reports[i].arg, reports[i].required_attrs[a]))
        => reports[i].exc = "AssertionError" /\ reports[i].line = 95

\* C3, amended: a node that declares a kind its context does not allow
\* always fails. The violation reported is the containment violation unless
\* an earlier check of the same node fails first: a required attribute that
\* is missing, or the rule of a kind that is iterated before the disallowed
\* one when type is a set.
C3_DisallowedKindFails ==
    \A i \in 1..Len(reports) : \A K \in Kinds :
      LET r == reports[i]
          kinds == DeclaredKinds(r.arg)
          first == FirstDisallowed(kinds, r.valid_types)
          required ==
            \A a \in 1..Len(r.required_attrs) :
              Has(r.arg, r.required_attrs[a])
      IN  (Declares(r.arg, K) /\ K \notin r.valid_types) =>
            /\ ~Ok(r)
            /\ ~required => r.exc = "AssertionError" /\ r.line = 88
            /\ (required /\ first = 1) =>
                 r.exc = "AssertionError" /\ r.line = 95
            /\ (required /\ first > 1) =>
                 \/ r.exc = "AssertionError" /\ r.line = 95
                 \/ r.line \in RuleLines

\* A band that declares {number, csv} fails on csv by containment, number
\* having passed its rule before it; the raster around it is reported valid.
C3_Witness ==
    \E i, j \in 1..Len(reports) :
      /\ reports[i].valid_types = valid_nested_types.raster
      /\ Declares(reports[i].arg, "number")
      /\ Declares(reports[i].arg, "csv")
      /\ reports[i].line = 95
      /\ reports[j].name = "m1.a" /\ Ok(reports[j])

\* C4: a node of kind K that carries only `type` and what K requires (and,
\* at the top level, name and about) validates wherever K is allowed.
C4_MinimalNodesValidate ==
    \A i \in 1..Len(reports) : \A K \in Kinds :
      LET r == reports[i]
      IN  (/\ K \in r.valid_types
           /\ IF r.required_attrs = <<>>
              THEN r.arg \in MinNodes(K)
              ELSE r.arg \in {Top(n) : n \in MinNodes(K)})
            => Ok(r)

\* A minimal number node validated as the band of a minimal raster, itself
\* validated at the top level.
C4_Witness ==
    \E i, j \in 1..Len(reports) :
      /\ reports[i].name = "m1.a.bands.1"
      /\ reports[i].arg = NumberNode
      /\ reports[i].valid_types = valid_nested_types.raster
      /\ Ok(reports[i])
      /\ reports[j].name = "m1.a"
      /\ reports[j].arg \in {Top(n) : n \in MinNodes("raster")}
      /\ Ok(reports[j])

\* The attributes the branch of kind K reads.
Contract(K) ==
    CASE K = "option_string" -> {"options"}
      [] K = "freestyle_string" -> {"regexp"}
      [] K = "number" -> {"units", "expression"}
      [] K = "raster" -> {"bands", "projected", "projection_units"}
      [] K = "vector" ->
           {"fields", "geometries", "projected", "projection_units"}
      [] K = "csv" -> {"rows", "columns", "excel_ok"}
      [] K = "directory" -> {"contents", "permissions", "must_exist"}
      [] K = "file" -> {"permissions"}
      [] OTHER -> {}

\* The attributes every node may carry.
CommonAttrNames == {"name", "about", "required", "type"}

\* node without its attribute name.
Without(node, name) ==
    PyDict(SelectSeq(node.items, LAMBDA e : e.key # PyStr(name)))

\* The node's own outcome when validated as report r's node was.
OwnOutcome(node, r) ==
    LET rs == validate(node, r.name, r.valid_types, r.required_attrs,
                       <<>>).reports
    IN  rs[Len(rs)]

\* C5: an attribute X that is neither common nor read by the branch of a
\* kind the node declares, on a node that validates without it, is reported
\* as the one leftover key.
C5_UnexplainedAttribute ==
    \A i \in 1..Len(reports) :
      LET r == reports[i]
          explained ==
            CommonAttrNames
              \cup UNION {Contract(DeclaredKinds(r.arg)[k].s) :
                            k \in 1..Len(DeclaredKinds(r.arg))}
      IN  (IsInstance(r.arg, "dict") /\ Has(r.arg, "type")) =>
            \A X \in Keys(r.arg) \ explained :
              Ok(OwnOutcome(Without(r.arg, X), r)) =>
                /\ r.exc = "AssertionError"
                /\ r.line = 287
                /\ r.keys = {X}

\* A number that carries `bands`, reported with that one leftover key.
C5_Witness ==
    \E i \in 1..Len(reports) :
      /\ reports[i].name = "m1.a"
      /\ reports[i].arg = Top(With(NumberNode, "bands", PyBool(TRUE)))
      /\ reports[i].line = 287
      /\ reports[i].keys = {"bands"}

\* A permissions value as the permissions mini-language defines it: a
\* non-empty string of the letters r, w, x, none of them twice.
PermissionsOk(v) ==
    /\ IsInstance(v, "str")
    /\ Len(v.s) > 0
    /\ \A i \in 1..Len(v.s) : SubSeq(v.s, i, i) \in {"r", "w", "x"}
    /\ \A i, j \in 1..Len(v.s) :
         SubSeq(v.s, i, i) = SubSeq(v.s, j, j) => i = j

\* C6, as claimed: a file node that carries a valid permissions string, and
\* nothing else that could fail, validates.
C6_FilePermissionsAccepted ==
    \A i \in 1..Len(reports) :
      (/\ PlainOf(reports[i], "file", {"permissions"})
       /\ Has(reports[i].arg, "permissions")
       /\ PermissionsOk(Get(reports[i].arg, "permissions")))
        => Ok(reports[i])

\* The mapping a container requires is there, with keys of the right class.
NestingOk(arg, attr, cls) ==
    /\ Has(arg, attr)
    /\ IsInstance(Get(arg, attr), "dict")
    /\ \A e \in 1..Len(Get(arg, attr).items) :
         IsInstance(Get(arg, attr).items[e].key, cls)

\* C7, as claimed: on a raster or vector node, projection_units is accepted
\* when projected is present and true and projection_units is a Unit, and
\* otherwise the node fails with a validation failure (an AssertionError),
\* not with a lookup error.
C7_ProjectionUnitsFailure ==
    \A i \in 1..Len(reports) : \A K \in {"raster", "vector"} :
      LET r == reports[i]
      IN  (/\ PlainOf(r, K, Contract(K))
           /\ IF K = "raster" THEN NestingOk(r.arg, "bands", "int")
              ELSE /\ NestingOk(r.arg, "fields", "str")
                   /\ Has(r.arg, "geometries")
                   /\ IsInstance(Get(r.arg, "geometries"), "set")
           /\ Has(r.arg, "projection_units"))
            => IF /\ Has(r.arg, "projected")
                  /\ Get(r.arg, "projected") = PyBool(TRUE)
                  /\ IsInstance(Get(r.arg, "projection_units"), "pint.Unit")
               THEN Ok(r)
               ELSE r.exc = "AssertionError"

\* The line of validate_permissions_value at which a value that is no
\* permissions string is refused.
RefusedAt(v) ==
    IF ~IsInstance(v, "str") THEN 306 ELSE IF v.s = "" THEN 307 ELSE 310

\* C8: validate_permissions_value accepts exactly the non-empty strings over
\* r, w, x without a repeated letter: a directory that carries such a value
\* validates, and a directory or file that carries any other value fails
\* with the assertion that refuses it.
C8_PermissionsValue ==
    \A i \in 1..Len(reports) :
      LET r == reports[i]
          permissions == Get(r.arg, "permissions")
      IN  /\ (/\ PlainOf(r, "directory", {"contents", "permissions"})
              /\ NestingOk(r.arg, "contents", "str")
              /\ Has(r.arg, "permissions"))
               => IF PermissionsOk(permissions) THEN Ok(r)
                  ELSE /\ r.exc = "AssertionError"
                       /\ r.line = RefusedAt(permissions)
          /\ (/\ PlainOf(r, "file", {"permissions"})
              /\ Has(r.arg, "permissions"))
               => IF PermissionsOk(permissions)
                  THEN r.line \notin {306, 307, 310}
                  ELSE /\ r.exc = "AssertionError"
                       /\ r.line = RefusedAt(permissions)

\* A directory whose permissions are the three letters in another order
\* than rwx, accepted.
C8_Witness ==
    \E i \in 1..Len(reports) :
      /\ reports[i].name = "m1.a"
      /\ Declares(reports[i].arg, "directory")
      /\ Has(reports[i].arg, "permissions")
      /\ Get(reports[i].arg, "permissions") = PyStr("xwr")
      /\ Ok(reports[i])

\* C9: a csv node with both rows and columns fails; with one of them, a
\* mapping keyed by strings, or with neither, it validates; and rows,
\* columns and excel_ok are never among the leftover keys of a node that
\* declares csv.
C9_CsvRowsOrColumns ==
    \A i \in 1..Len(reports) :
      LET r == reports[i]
          both == Has(r.arg, "rows") /\ Has(r.arg, "columns")
      IN  /\ PlainOf(r, "csv", Contract("csv")) =>
                /\ both => r.exc = "AssertionError" /\ r.line = 211
                /\ (/\ ~both
                    /\ \A d \in {"rows", "columns"} :
                         Has(r.arg, d) => NestingOk(r.arg, d, "str")
                    /\ Has(r.arg, "excel_ok") =>
                         IsInstance(Get(r.arg, "excel_ok"), "bool"))
                     => Ok(r)
          /\ (Declares(r.arg, "csv") /\ r.line = 287) =>
                r.keys \cap Contract("csv") = {}

\* A csv node with rows alone, its row validated under the csv kinds, and
\* the csv node reported valid.
C9_Witness ==
    \E i, j \in 1..Len(reports) :
      /\ reports[i].name = "m1.a.rows.h"
      /\ reports[i].valid_types = valid_nested_types.csv
      /\ Ok(reports[i])
      /\ reports[j].name = "m1.a"
      /\ Get(reports[j].arg, "type") = PyStr("csv")
      /\ ~Has(reports[j].arg, "columns")
      /\ Ok(reports[j])

\* An options value of the shape option_string asks for: a set of strings,
\* or a mapping of strings to strings.
OptionsOk(v) ==
    \/ /\ IsInstance(v, "set")
       /\ \A e \in 1..Len(v.items) : IsInstance(v.items[e], "str")
    \/ /\ IsInstance(v, "dict")
       /\ \A e \in 1..Len(v.items) :
            /\ IsInstance(v.items[e].key, "str")
            /\ IsInstance(v.items[e].val, "str")

\* C10: an option_string node validates exactly when options is present and
\* is a set of strings or a mapping of strings to strings; otherwise one of
\* the assertions on options fails.
C10_OptionStringOptions ==
    \A i \in 1..Len(reports) :
      LET r == reports[i]
      IN  PlainOf(r, "option_string", {"options"}) =>
            IF Has(r.arg, "options") /\ OptionsOk(Get(r.arg, "options"))
            THEN Ok(r)
            ELSE /\ r.exc = "AssertionError"
                 /\ r.line \in {100, 103, 107, 110, 111}

\* An option_string whose options map "a" to the number 1, refused on the
\* value.
C10_Witness ==
    \E i \in 1..Len(reports) :
      /\ reports[i].name = "m1.a"
      /\ Declares(reports[i].arg, "option_string")
      /\ Has(reports[i].arg, "options")
      /\ Get(reports[i].arg, "options") = Single(PyStr("a"), PyInt(1))
      /\ reports[i].exc = "AssertionError"
      /\ reports[i].line = 111

\* Every report in the subtree of report i's node is of a success.
SubtreeOk(i) ==
    \A j \in 1..Len(reports) : Under(j, reports[i].name) => Ok(reports[j])

\* C11, as claimed: a freestyle_string whose regexp is a string validates
\* when the pattern compiles, and otherwise fails with the validator's
\* documented outcome, an AssertionError.
C11_RegexpOutcome ==
    \A i \in 1..Len(reports) :
      LET r == reports[i]
      IN  (/\ PlainOf(r, "freestyle_string", {"regexp"})
           /\ Has(r.arg, "regexp")
           /\ IsInstance(Get(r.arg, "regexp"), "str"))
            => IF re_compiles(Get(r.arg, "regexp").s, 1, FALSE)
               THEN Ok(r)
               ELSE r.exc = "AssertionError"

\* C12: a number node without units fails on the assertion that asks for
\* units (line 124); with units a Unit and expression, if present, a string,
\* the node validates, nothing of the two left over, whatever the text of
\* the expression.
C12_NumberUnits ==
    \A i \in 1..Len(reports) :
      LET r == reports[i]
      IN  PlainOf(r, "number", {"units", "expression"}) =>
            /\ ~Has(r.arg, "units") =>
                 r.exc = "AssertionError" /\ r.line = 124
            /\ (/\ Has(r.arg, "units")
                /\ IsInstance(Get(r.arg, "units"), "pint.Unit")
                /\ Has(r.arg, "expression") =>
                     IsInstance(Get(r.arg, "expression"), "str"))
                 => Ok(r)

\* A number without units refused at line 124, beside a number whose
\* expression is no well-formed predicate, accepted.
C12_Witness ==
    \E i, j \in 1..Len(reports) :
      /\ reports[i].name = "m1.b"
      /\ reports[i].arg = BadArg
      /\ reports[i].exc = "AssertionError" /\ reports[i].line = 124
      /\ reports[j].name = "m1.a"
      /\ Declares(reports[j].arg, "number")
      /\ Has(reports[j].arg, "units")
      /\ Has(reports[j].arg, "expression")
      /\ Get(reports[j].arg, "expression") = PyStr("value >")
      /\ Ok(reports[j])

\* C13, as claimed: in a node that validates, every Unit was issued by the
\* shared registry.
C13_UnitClosure ==
    \A i \in 1..Len(reports) :
      LET r == reports[i]
      IN  (Ok(r) /\ IsInstance(r.arg, "dict")) =>
            \A attr \in {"units", "projection_units"} :
              (Has(r.arg, attr) /\ IsInstance(Get(r.arg, attr), "pint.Unit"))
                => Get(r.arg, attr).n = 0

\* C14, as claimed: a raster that validates, its bands with it, has bands, a
\* mapping whose keys are integers from 1 up.
C14_BandKeys ==
    \A i \in 1..Len(reports) :
      LET r == reports[i]
      IN  (Ok(r) /\ SubtreeOk(i) /\ Declares(r.arg, "raster")) =>
            /\ Has(r.arg, "bands")
            /\ IsInstance(Get(r.arg, "bands"), "dict")
            /\ \A e \in 1..Len(Get(r.arg, "bands").items) :
                 LET band == Get(r.arg, "bands").items[e].key
                 IN  band.k = "int" /\ band.n >= 1

\* C15, as claimed: a vector that validates, its fields with it, has fields,
\* a mapping keyed by strings, and geometries, a non-empty set of members of
\* ALL_GEOMS.
C15_Geometries ==
    \A i \in 1..Len(reports) :
      LET r == reports[i]
      IN  (Ok(r) /\ SubtreeOk(i) /\ Declares(r.arg, "vector")) =>
            /\ NestingOk(r.arg, "fields", "str")
            /\ Has(r.arg, "geometries")
            /\ LET geometries == Get(r.arg, "geometries")
               IN  /\ IsInstance(geometries, "set")
                   /\ Len(geometries.items) > 0
                   /\ \A e \in 1..Len(geometries.items) :
                        /\ IsInstance(geometries.items[e], "str")
                        /\ geometries.items[e].s \in ALL_GEOMS

\* The report is of a top-level argument of a model.
TopLevel(r) ==
    \E m \in 1..Len(models) : \E j \in 1..Len(models[m].args) :
      r.name = ArgName(m, j)

\* C16: name and about are asked for exactly at the top level. A top-level
\* argument without one of them fails on the assertion of line 88; a nested
\* node without them has the outcome it would have with them; and a node
\* whose name or about is no string never validates.
C16_NameAbout ==
    \A i \in 1..Len(reports) :
      LET r == reports[i]
          asTop == [r EXCEPT !.required_attrs = <<"name", "about">>]
      IN  /\ r.required_attrs =
                IF TopLevel(r) THEN <<"name", "about">> ELSE <<>>
          /\ IsInstance(r.arg, "dict") =>
                /\ (TopLevel(r) /\ ~(Has(r.arg, "name") /\ Has(r.arg, "about")))
                     => r.exc = "AssertionError" /\ r.line = 88
                /\ (~TopLevel(r) /\ ~Has(r.arg, "name") /\ ~Has(r.arg, "about"))
                     => /\ r.line # 88
                        /\ OwnOutcome(Top(r.arg), asTop).exc = r.exc
                        /\ OwnOutcome(Top(r.arg), asTop).line = r.line
                /\ (\E a \in {"name", "about"} :
                      Has(r.arg, a) /\ ~IsInstance(Get(r.arg, a), "str"))
                     => ~Ok(r)

\* A top-level argument that carries name and lacks about, refused at line
\* 88.
C16_Witness ==
    \E i \in 1..Len(reports) :
      /\ reports[i].name = "m1.a"
      /\ reports[i].arg = With(NumberNode, "name", PyStr("n"))
      /\ reports[i].exc = "AssertionError"
      /\ reports[i].line = 88

\* node as a node of the single kind K: its type is K, and of its other
\* attributes it keeps the common ones and those K's branch reads.
Restrict(node, K) ==
    LET kept == SelectSeq(node.items,
                          LAMBDA e : e.key.s \in CommonAttrNames
                                                   \cup Contract(K))
    IN  PyDict([e \in 1..Len(kept) |->
                  IF kept[e].key = PyStr("type")
                  THEN Attr("type", PyStr(K)) ELSE kept[e]])

\* C17, as claimed: a node whose type is a set of several kinds validates
\* when every kind is allowed where the node stands, the node is valid as a
\* node of each of its kinds alone, and every attribute is read by the
\* branch of one of its kinds.
C17_SetOfKinds ==
    \A i \in 1..Len(reports) :
      LET r == reports[i]
          kinds == DeclaredKinds(r.arg)
      IN  (/\ IsInstance(r.arg, "dict")
           /\ Has(r.arg, "type")
           /\ IsInstance(Get(r.arg, "type"), "set")
           /\ Len(kinds) > 1
           /\ \A k \in 1..Len(kinds) :
                /\ IsInstance(kinds[k], "str")
                /\ kinds[k].s \in r.valid_types
           /\ \A a \in 1..Len(r.required_attrs) :
                Has(r.arg, r.required_attrs[a])
           /\ Keys(r.arg) \subseteq
                CommonAttrNames
                  \cup UNION {Contract(kinds[k].s) : k \in 1..Len(kinds)}
           /\ \A k \in 1..Len(kinds) :
                Ok(OwnOutcome(Restrict(r.arg, kinds[k].s), r)))
            => Ok(r)


\* ------------------------------------------------------------ format_unit

\* The orders in which the members of S can be listed.
Orders(S) ==
    {o \in [1..Cardinality(S) -> S] :
       \A i, j \in 1..Cardinality(S) : o[i] = o[j] => i = j}

\* A factor as the rendering shows it: the registry symbol of the unit name,
\* followed by the size of its exponent as a superscript unless that is 1.
Factor(unit, name) ==
    get_symbol(name)
      \o (CASE Exponent(unit, name) \in {1, -1} -> ""
            [] Exponent(unit, name) \in {2, -2} -> "²"
            [] Exponent(unit, name) \in {3, -3} -> "³")

Numerator(unit) == {n \in UnitNames(unit) : Exponent(unit, n) > 0}

Denominator(unit) == {n \in UnitNames(unit) : Exponent(unit, n) < 0}

\* The renderings of a unit whose factors are listed in the orders above and
\* below: the factors above joined by " · " (1 when there are none), and
\* when there are factors below, a "/" and the factors below, joined by
\* " · " in one pair of parentheses when there are several.
Rendering(unit, above, below) ==
    (IF Len(above) = 0 THEN "1"
     ELSE join(" · ", [i \in 1..Len(above) |-> Factor(unit, above[i])]))
      \o (CASE Len(below) = 0 -> ""
            [] Len(below) = 1 -> "/" \o Factor(unit, below[1])
            [] OTHER ->
                 "/(" \o join(" · ", [i \in 1..Len(below) |->
                                          Factor(unit, below[i])])
                      \o ")")

Renderings(unit) ==
    IF unit.items = <<>> THEN {""}
    ELSE {Rendering(unit, above, below) :
            above \in Orders(Numerator(unit)),
            below \in Orders(Denominator(unit))}

\* The unit has a pre-set format.
HasCustomFormat(unit) ==
    \E c \in 1..Len(custom_formats) : custom_formats[c].unit.items = unit.items

\* C19: format_unit returns, for a Unit that has no pre-set format, a
\* rendering of its factors by their registry symbols: the factors of the
\* numerator joined by " · ", a "/" before the denominator, the factors of
\* the denominator in one parenthesized group when there are several and
\* bare when there is one, exponents as superscripts; and meter per second
\* gives "m/s".
C19_FormatUnitRendering ==
    (call.fn = "format_unit" /\ IsInstance(call.arg, "pint.Unit")
       /\ ~HasCustomFormat(call.arg))
      => /\ call.exc = ""
         /\ call.text \in Renderings(call.arg)
         /\ call.arg.items = UnitDiv(PyUnit("m", 0), PyUnit("s", 0)).items
              => call.text = "m/s"

\* format_unit has rendered a unit with a factor above and several below,
\* one of them squared.
C19_Witness ==
    /\ call.fn = "format_unit"
    /\ IsInstance(call.arg, "pint.Unit")
    /\ Cardinality(Numerator(call.arg)) = 1
    /\ Cardinality(Denominator(call.arg)) > 1
    /\ \E n \in UnitNames(call.arg) : Exponent(call.arg, n) = -2
    /\ call.text \in Renderings(call.arg)

\* C20 as stated: format_unit raises TypeError and returns no string for
\* every argument that is not a Unit of the shared registry.
C20_NotSharedUnitRaises ==
    (call.fn = "format_unit"
       /\ ~(IsInstance(call.arg, "pint.Unit") /\ call.arg.n = 0))
      => (call.exc = "TypeError" /\ call.text = "")


\* ------------------------------------------------------------ the spec tree

\* C18: neither validate nor serialize_args_spec changes the spec tree.
\* Every step leaves every model's arguments as they were, every node a
\* validate call was given has, when the call ends, the keys and values it
\* had when the call began, and the ARGS_SPEC given to serialize_args_spec
\* is, when the call returns or raises, as it was given.
C18_TreeUnchanged ==
    [][/\ models' = models
       /\ \A i \in 1..Len(reports') : reports'[i].after = reports'[i].arg
       /\ call'.after = call'.arg]_vars

\* serialize_args_spec has raised and validate has failed on a nested node
\* of the same tree.
C18_Witness ==
    /\ call.fn = "serialize_args_spec"
    /\ call.exc = "TypeError"
    /\ Len(reports) > 1
    /\ \E i \in 1..Len(reports) : reports[i].exc = "AssertionError"
    /\ \E i \in 1..Len(reports) :
         reports[i].exc = "" /\ reports[i].arg.k = "dict"


\* ------------------------------------------------------------ pre-set formats

\* C21: format_unit looks a Unit of the shared registry up in its pre-set
\* formats before it formats it automatically. The unit of soil erodibility
\* is one unit however it is written (hectares above and below or not, the
\* hour as h or hr) and always gives 't · h · ha / (ha · MJ · mm)'; a unit
\* that is not in the table gives the automatic format of its factors.
C21_CustomFormatFirst ==
    /\ \A a, b \in Erodibility : a.items = b.items
    /\ (call.fn = "format_unit" /\ IsInstance(call.arg, "pint.Unit")
          /\ call.arg.n = 0)
         => /\ call.exc = ""
            /\ call.arg \in Erodibility
                 => call.text = "t · h · ha / (ha · MJ · mm)"
            /\ (\A e \in Erodibility : call.arg.items # e.items)
                 => call.text = formatter(unit_items(call.arg))

\* format_unit has formatted the unit of soil erodibility written with hr
\* and with hectares above and below.
C21_Witness ==
    /\ call.fn = "format_unit"
    /\ call.arg = UnitDiv(UnitMul(PyUnit("t", 0),
                                  UnitMul(PyUnit("hr", 0), PyUnit("ha", 0))),
                          UnitMul(PyUnit("ha", 0),
                                  UnitMul(PyUnit("MJ", 0), PyUnit("mm", 0))))
    /\ call.text = "t · h · ha / (ha · MJ · mm)"


\* ------------------------------------------------------------ serialization

\* The tree with every Unit replaced by the string format_unit returns for
\* it and every set by the string that lists its members.
RECURSIVE Substituted(_)
Substituted(obj) ==
    CASE obj.k = "unit" -> PyStr(format_unit(obj).text)
      [] obj.k = "set" -> PyStr(str(obj))
      [] obj.k = "dict" ->
           PyDict([i \in 1..Len(obj.items) |->
                     Entry(obj.items[i].key, Substituted(obj.items[i].val))])
      [] OTHER -> obj

\* Every value of the tree is natively encodable, a Unit format_unit has a
\* string for, or a set, and every key is one json.dumps takes.
RECURSIVE Convertible(_)
Convertible(obj) ==
    CASE obj.k \in {"str", "int", "bool", "none", "set"} -> TRUE
      [] obj.k = "unit" -> format_unit(obj).exc = ""
      [] obj.k = "dict" ->
           \A i \in 1..Len(obj.items) :
             KeyOk(obj.items[i].key) /\ Convertible(obj.items[i].val)
      [] OTHER -> FALSE

\* C22: serialize_args_spec gives, for a tree of natively encodable values,
\* Units and sets, the structural encoding of the tree in which every Unit
\* at any depth is replaced by the string format_unit returns for it and
\* every set by the string listing its members; a number in meters per
\* second serializes with "units": "m/s" and a set of two geometry tags as
\* one string, not as an array.
C22_UnitsAndSetsSubstituted ==
    (call.fn = "serialize_args_spec" /\ Convertible(call.arg))
      => /\ call.exc = ""
         /\ call.text = encode(Substituted(call.arg)).text
         /\ Get(call.arg, "args").items[1].val = SpeedNode
              => call.text
                   = "{\"model_name\": \"m1\", \"args\": {\"a\": {\"name\": "
                       \o "\"n\", \"about\": \"a\", \"type\": \"number\", "
                       \o "\"units\": \"m/s\"}}}"
         /\ Get(call.arg, "args").items[1].val = PolygonsNode
              => \E i \in 1..Len(call.text) :
                   SubSeq(call.text, i, Len(call.text))
                     = "\"geometries\": \"{'POLYGON', 'MULTIPOLYGON'}\"}}}"

\* serialize_args_spec has serialized a vector with a set of geometries and
\* a field whose unit is meters per second.
C22_Witness ==
    /\ call.fn = "serialize_args_spec"
    /\ call.exc = ""
    /\ Get(call.arg, "args").items[1].val = PolygonsNode


\* The tree holds, at some depth, a value that is neither natively encodable
\* nor a Unit nor a set.
RECURSIVE HoldsUnconvertible(_)
HoldsUnconvertible(obj) ==
    CASE obj.k \in {"str", "int", "bool", "none", "set", "unit"} -> FALSE
      [] obj.k = "dict" ->
           \E i \in 1..Len(obj.items) : HoldsUnconvertible(obj.items[i].val)
      [] OTHER -> TRUE

\* C23 as stated: serialize_args_spec on a tree that holds, at any depth, a
\* value that is neither natively encodable nor a Unit nor a set raises
\* TypeError and returns no text.
C23_UnconvertibleRaisesTypeError ==
    (call.fn = "serialize_args_spec" /\ HoldsUnconvertible(call.arg))
      => (call.exc = "TypeError" /\ call.text = "")


\* ------------------------------------------------------------ custom units

\* The Units of the custom base units.
CustomUnits == {PyUnit(b.name, 0) : b \in CustomBaseUnits}

\* Two units of one dimension vector and one scale.
SameDimensionAndScale(a, b) ==
    BaseOf(a).dimension = BaseOf(b).dimension /\ BaseOf(a).scale = BaseOf(b).scale

\* C24 as stated: currency, pixel, linear_unit, none and international_unit
\* are pairwise distinct: no two have the same dimension vector and scale,
\* no two format to the same string, and each has a dimension tag of its
\* own rather than the dimensionless dimension.
C24_CustomUnitsDistinct ==
    (call.fn = "format_unit" /\ call.arg \in CustomUnits)
      => /\ BaseOf(call.arg).dimension # {}
         /\ \A b \in CustomUnits \ {call.arg} :
              /\ ~SameDimensionAndScale(call.arg, b)
              /\ format_unit(b).text # call.text

\* What does hold of them: no two format to the same string, and no two
\* are the same Unit (Units are compared by their _units).
CustomUnitsFormatApart ==
    (call.fn = "format_unit" /\ call.arg \in CustomUnits)
      => \A b \in CustomUnits \ {call.arg} :
           b.items # call.arg.items /\ format_unit(b).text # call.text


\* ------------------------------------------------------------ the command line

\* _MODEL_ALIASES (cli.py lines 31-37): the aliases of every model.
MODEL_ALIASES(table) == UNION {table[model] : model \in DOMAIN table}

\* _MODEL_ALIASES[alias]
AliasTarget(table, alias) ==
    CHOOSE model \in DOMAIN table : alias \in table[model]

\* What SelectModelAction.__call__ makes of the user's string: the model
\* name it stores, or the status parser.exit ends the process with.
Selected(modelname) == [modelname |-> <<modelname>>, status |-> <<>>]

Exit(code) == [modelname |-> <<>>, status |-> <<code>>]

\* SelectModel had it no branch for an exact model name.
SelectModel_prefixOnly(values, matching_models, exact_matches, table) ==
    IF Len(matching_models) = 1 THEN Selected(matching_models[1])
    ELSE IF values \in MODEL_ALIASES(table)
    THEN Selected(AliasTarget(table, values))
    ELSE Exit(1)

\* Lines 189-205 of SelectModelAction.__call__, given the lists of lines
\* 183-187.
SelectModel(values, matching_models, exact_matches, table) ==
    IF Len(matching_models) = 1 THEN Selected(matching_models[1])
    ELSE IF Len(exact_matches) = 1 THEN Selected(exact_matches[1])
    ELSE IF values \in MODEL_ALIASES(table)
    THEN Selected(AliasTarget(table, values))
    ELSE Exit(1)

\* The model names and aliases drawn. coastal_blue_carbon is the whole of a
\* name and the start of another.
ModelNames ==
    {"carbon", "coastal_blue_carbon", "coastal_blue_carbon_preprocessor",
     "coastal_vulnerability", "delineateit"}

\* The aliases each model is registered with: the usual ones, and ones that
\* are also the start of model names.
AliasTables ==
    {[model \in ModelNames |->
        CASE model = "coastal_blue_carbon" -> {"cbc"}
          [] model = "coastal_blue_carbon_preprocessor" -> {"cbc_pre"}
          [] model = "coastal_vulnerability" -> {"cv"}
          [] OTHER -> {}],
     [model \in ModelNames |->
        CASE model = "carbon" -> {"co", "d"}
          [] model = "coastal_vulnerability" -> {"cv"}
          [] OTHER -> {}]}

\* The MODEL_METADATA tables drawn: some of the models, with their aliases.
MetadataTables ==
    {[model \in names |-> aliases[model]] :
       names \in SUBSET ModelNames \ {{}}, aliases \in AliasTables}

\* The strings a user gives for a model.
ModelStrings ==
    {"", "d", "co", "carbo", "carbon", "carbonx", "coastal_v",
     "coastal_blue_carbon", "coastal_blue_carbon_p", "cbc", "cbc_pre", "cv",
     "x"}

\* LOCALES (__init__.py line 26): the locale directories and 'en'.
LOCALES == {"en", "es", "zh"}

\* The locale codes a caller gives.
LocaleCodes == LOCALES \cup {"", "xx", "EN"}

\* set_locale(locale_code), for the module's LOCALE given: the exception it
\* raises and the module's LOCALE after the call. Line 55 names
\* CURRENT_LOCALE, which no line of the module defines, so evaluating the
\* arguments of setattr raises NameError.
set_locale(locale_code, locale) ==
    IF locale_code \notin LOCALES
    THEN [exc |-> "ValueError", LOCALE |-> locale]
    ELSE [exc |-> "NameError", LOCALE |-> locale]

CliInit ==
    /\ models = <<>>
    /\ mi = 1
    /\ ai = 1
    /\ reports = <<>>
    /\ status = "ended"
    /\ call = NoCall
    /\ metadata \in MetadataTables
    /\ namespace = <<>>
    /\ exited = <<>>
    /\ LOCALE = "en"

\* argparse calls SelectModelAction with the user's string (lines 181-206).
\* parser.exit ends the process before setattr is reached.
SelectModelAction ==
    /\ exited = <<>>
    /\ \E values \in ModelStrings :
         \E r \in {SelectModel(
                     values,
                     SelectSeq(sorted(DOMAIN metadata),
                               LAMBDA model : StartsWith(model, values)),
                     SelectSeq(sorted(DOMAIN metadata),
                               LAMBDA model : model = values),
                     metadata)} :
           /\ namespace' = IF r.status = <<>> THEN r.modelname ELSE namespace
           /\ exited' = r.status
           /\ call' = [fn |-> "SelectModelAction", arg |-> PyStr(values),
                       text |-> "",
                       exc |-> IF r.status = <<>> THEN "" ELSE "SystemExit",
                       after |-> PyStr(values)]
    /\ UNCHANGED <<models, mi, ai, reports, status, metadata, LOCALE>>

\* A call of natcap.invest.set_locale.
SetLocale ==
    /\ exited = <<>>
    /\ \E locale_code \in LocaleCodes :
         \E r \in {set_locale(locale_code, LOCALE)} :
           /\ LOCALE' = r.LOCALE
           /\ call' = [fn |-> "set_locale", arg |-> PyStr(locale_code),
                       text |-> "", exc |-> r.exc,
                       after |-> PyStr(locale_code)]
    /\ UNCHANGED <<models, mi, ai, reports, status, metadata, namespace,
                   exited>>

CliNext == SelectModelAction \/ SetLocale

CliSpec == CliInit /\ [][CliNext]_vars

\* The models of the table whose names start with the string.
Prefixed(table, values) ==
    {model \in DOMAIN table : StartsWith(model, values)}

\* The model a string names: itself when it is a model name, else the one
\* model whose name it starts, else the model it is an alias of; {} when it
\* names none.
Named(table, values) ==
    IF values \in DOMAIN table THEN {values}
    ELSE IF Cardinality(Prefixed(table, values)) = 1
    THEN Prefixed(table, values)
    ELSE {model \in DOMAIN table : values \in table[model]}

\* C25: a call of SelectModelAction with a string that is a model name, the
\* start of exactly one model name, or an alias, stores exactly that model's
\* name on the namespace and does not exit (a model name that also starts
\* another model's name stores itself); with any other string it exits with
\* status 1 and leaves the namespace as it was.
C25_SelectModel ==
    [][(call'.fn = "SelectModelAction"
          /\ <<call, namespace, exited>>' # <<call, namespace, exited>>)
         => IF Named(metadata, call'.arg.s) # {}
            THEN /\ exited' = <<>>
                 /\ \E model \in Named(metadata, call'.arg.s) :
                      namespace' = <<model>>
                 /\ Cardinality(Named(metadata, call'.arg.s)) = 1
            ELSE /\ exited' = <<1>>
                 /\ namespace' = namespace]_vars

\* SelectModelAction has stored coastal_blue_carbon, given in full, while
\* coastal_blue_carbon_preprocessor is a model too.
C25_Witness ==
    /\ call.fn = "SelectModelAction"
    /\ call.arg = PyStr("coastal_blue_carbon")
    /\ "coastal_blue_carbon_preprocessor" \in DOMAIN metadata
    /\ namespace = <<"coastal_blue_carbon">>
    /\ exited = <<>>

\* C26 as stated: after set_locale(code) with code in LOCALES the call has
\* returned and LOCALE equals code; with code not in LOCALES it has raised
\* ValueError and LOCALE is as it was.
C26_SetLocale ==
    [][(call'.fn = "set_locale" /\ <<call, LOCALE>>' # <<call, LOCALE>>)
         => IF call'.arg.s \in LOCALES
            THEN call'.exc = "" /\ LOCALE' = call'.arg.s
            ELSE call'.exc = "ValueError" /\ LOCALE' = LOCALE]_vars


\* ------------------------------------------------------------ recursion

\* The attributes whose values map keys to nested nodes.
Containers == {"bands", "fields", "rows", "columns", "contents"}

\* The kinds a node entered through a container attribute may declare.
KindsUnder(attr) ==
    CASE attr = "bands" -> {"code", "number", "ratio"}
      [] attr = "fields" ->
           {"code", "freestyle_string", "number", "option_string", "percent",
            "ratio"}
      [] attr \in {"rows", "columns"} ->
           {"boolean", "code", "freestyle_string", "number", "option_string",
            "percent", "raster", "ratio", "vector"}
      [] attr = "contents" -> {"csv", "directory", "file", "raster", "vector"}

\* Report i is of a node entered from the node of report j through the
\* container attribute attr: its node is a value of that mapping and its
\* name is j's name extended by the attribute and the key.
EnteredFrom(i, j, attr) ==
    /\ IsInstance(reports[j].arg, "dict")
    /\ Has(reports[j].arg, attr)
    /\ IsInstance(Get(reports[j].arg, attr), "dict")
    /\ \E e \in 1..Len(Get(reports[j].arg, attr).items) :
         /\ Get(reports[j].arg, attr).items[e].val = reports[i].arg
         /\ reports[i].name
              = reports[j].name \o "." \o attr \o "."
                  \o PyFormat(Get(reports[j].arg, attr).items[e].key)

\* C27: every node the validator reports is a top-level argument or was
\* entered from a node reported after it, through one container attribute,
\* under a name that extends the parent's by the attribute and the key; and
\* the kinds it was allowed are those of the container attribute alone,
\* whatever kinds the parent was allowed.
C27_NarrowedKinds ==
    \A i \in 1..Len(reports) :
      \/ TopLevel(reports[i])
      \/ /\ \E j \in (i + 1)..Len(reports) :
               \E attr \in Containers : EnteredFrom(i, j, attr)
         /\ \A j \in (i + 1)..Len(reports) :
               \A attr \in Containers :
                 EnteredFrom(i, j, attr)
                   => reports[i].valid_types = KindsUnder(attr)

\* A band has been validated under a raster that stands in the column of a
\* csv in a directory: the raster was allowed the kinds of a csv, the band
\* the kinds of a raster.
C27_Witness ==
    \E i, j \in 1..Len(reports) :
      /\ EnteredFrom(i, j, "bands")
      /\ reports[j].valid_types = KindsUnder("columns")
      /\ reports[i].valid_types = KindsUnder("bands")
      /\ \E k \in 1..Len(reports) : EnteredFrom(j, k, "columns")


\* ------------------------------------------------------------ termination

\* The passes the test method has yet to make from model m on: one for each
\* argument and one to leave each model.
RECURSIVE PassesFrom(_)
PassesFrom(m) ==
    IF m > Len(models) THEN 0
    ELSE Len(models[m].args) + 1 + PassesFrom(m + 1)

\* The steps the test method is from its end: the passes yet to make, less
\* the arguments of the current model already validated, and the return.
Remaining ==
    IF status # "running" THEN 0
    ELSE 1 + PassesFrom(mi) - (IF mi <= Len(models) THEN ai - 1 ELSE 0)

\* The nodes of a tree: the node itself and the nodes in the mappings under
\* its container attributes.
RECURSIVE NodeCount(_)
RECURSIVE NodeCountOf(_, _)
RECURSIVE NodeCountOfMappings(_, _)
NodeCountOf(entries, i) ==
    IF i > Len(entries) THEN 0
    ELSE NodeCount(entries[i].val) + NodeCountOf(entries, i + 1)

NodeCountOfMappings(entries, i) ==
    IF i > Len(entries) THEN 0
    ELSE NodeCountOf(entries[i].val.items, 1)
           + NodeCountOfMappings(entries, i + 1)

NodeCount(arg) ==
    IF ~IsInstance(arg, "dict") THEN 1
    ELSE 1 + NodeCountOfMappings(
               SelectSeq(arg.items,
                         LAMBDA e : /\ e.key.k = "str"
                                    /\ e.key.s \in Containers
                                    /\ IsInstance(e.val, "dict")), 1)

\* C28: validation terminates with an outcome for every top-level argument.
\* Every step of the test brings it nearer its end and none aborts it; a
\* call of validate enters no node twice and no more nodes than the tree
\* has (the names reported are pairwise distinct and each nested node was
\* entered from its parent through one container attribute); and when the
\* test has ended every argument of every model has its report, a success
\* or a violation.
C28_Terminates ==
    [][/\ Remaining' < Remaining
       /\ Remaining' >= 0
       /\ status' = "ended" <=> Remaining' = 0
       /\ reports' # reports
            => /\ Len(reports') > Len(reports)
               /\ Len(reports') - Len(reports)
                    <= NodeCount(models[mi].args[ai].val)
       /\ \A i, j \in 1..Len(reports') :
            reports'[i].name = reports'[j].name => i = j
       /\ \A i \in 1..Len(reports') :
            \/ \E m \in 1..Len(models) : \E j \in 1..Len(models[m].args) :
                 reports'[i].name = ArgName(m, j)
            \/ \E j \in (i + 1)..Len(reports') :
                 StartsWith(reports'[i].name, reports'[j].name \o ".")
       /\ status' = "ended"
            => \A m \in 1..Len(models) : \A j \in 1..Len(models[m].args) :
                 \E i \in 1..Len(reports') : reports'[i].name = ArgName(m, j)
      ]_vars

\* The test has ended after a validation that went four nodes deep and
\* recorded a violation.
C28_Witness ==
    /\ status = "ended"
    /\ Remaining = 0
    /\ \E i \in 1..Len(reports) : ~Ok(reports[i])
    /\ \E i, j, k, l \in 1..Len(reports) :
         /\ EnteredFrom(i, j, "bands")
         /\ EnteredFrom(j, k, "columns")
         /\ EnteredFrom(k, l, "contents")


\* ------------------------------------------------------------ pre-built nodes

\* C29 as stated: every pre-built node of spec_utils validates: the node and
\* every node nested in it declares kinds of the closed set that are allowed
\* where it stands, a band of a raster one of code, number and ratio.
C29_LibraryNodesValidate ==
    \A i \in 1..Len(reports) :
      (TopLevel(reports[i]) /\ reports[i].arg \in LibraryArgs)
        => /\ SubtreeOk(i)
           /\ \A j \in 1..Len(reports) :
                EnteredFrom(j, i, "bands")
                  => /\ Has(reports[j].arg, "type")
                     /\ Get(reports[j].arg, "type").s
                          \in {"code", "number", "ratio"}


\* ------------------------------------------------------------ nesting

\* The kinds without nested nodes.
LeafKinds ==
    {"boolean", "code", "file", "freestyle_string", "number", "option_string",
     "percent", "ratio"}

\* The kinds the node of a report that validated declares.
KindSet(r) ==
    {DeclaredKinds(r.arg)[e].s : e \in 1..Len(DeclaredKinds(r.arg))}

\* The kind whose branch enters the nodes of a container attribute.
KindOfContainer(attr) ==
    CASE attr = "bands" -> "raster"
      [] attr = "fields" -> "vector"
      [] attr \in {"rows", "columns"} -> "csv"
      [] attr = "contents" -> "directory"

\* Report i is of a node entered from the node of report j.
Nested(i, j) == \E attr \in Containers : EnteredFrom(i, j, attr)

\* C30: among the nodes that validate, a node that declares only kinds
\* among boolean, code, file, freestyle_string, number, option_string,
\* percent and ratio has no nested node; a band of a raster and a field of
\* a vector declare only such kinds; a node entered through the container
\* of a kind declares that kind only under the contents of a directory; and
\* a chain of nested nodes none of which declares directory has at most
\* three nodes.
C30_NestingBounded ==
    \A i \in 1..Len(reports) :
      Ok(reports[i])
        => /\ KindSet(reports[i]) \subseteq LeafKinds
                => \A j \in 1..Len(reports) : ~Nested(j, i)
           /\ \A j \in 1..Len(reports) : \A attr \in Containers :
                (Ok(reports[j]) /\ EnteredFrom(j, i, attr))
                  => /\ attr \in {"bands", "fields"}
                          => KindSet(reports[j]) \subseteq LeafKinds
                     /\ KindOfContainer(attr) \in KindSet(reports[j])
                          => attr = "contents"
           /\ \A j, k, l \in 1..Len(reports) :
                (/\ Ok(reports[j]) /\ Ok(reports[k]) /\ Ok(reports[l])
                 /\ Nested(j, i) /\ Nested(k, j) /\ Nested(l, k))
                  => \E n \in {i, j, k, l} :
                       "directory" \in KindSet(reports[n])

\* A csv, a raster in one of its columns and a band of the raster have all
\* validated.
C30_Witness ==
    \E i, j, k \in 1..Len(reports) :
      /\ Ok(reports[i]) /\ Ok(reports[j]) /\ Ok(reports[k])
      /\ EnteredFrom(i, j, "bands")
      /\ EnteredFrom(j, k, "columns")
      /\ KindSet(reports[k]) = {"csv"}
      /\ KindSet(reports[j]) = {"raster"}
      /\ KindSet(reports[i]) = {"number"}

====
